---- MODULE Spec2Model ----
(***************************************************************************)
(* The persistence core of the academic records manager: PlatformAdmin's   *)
(* load_data / save_data over a JSON document, the entity (de)serialisers  *)
(* they call, and the Enrollment registry; then the entity classes on      *)
(* their own: the Person setters, Student, Instructor, Grade, Schedule and *)
(* the assignments and grades of a Course.                                 *)
(*                                                                         *)
(* Python objects are records.  An object that the code compares by        *)
(* identity (Student, Course, Instructor define no __eq__) carries an oid: *)
(* <<n, i>> is the i-th object of its kind built by the n-th load_data     *)
(* call.  A reference held by another object is the referenced object's    *)
(* oid together with the fields the code reads through the reference and   *)
(* that have no setter.  A dict is a function from its keys; Python's None *)
(* is the string "None"; an optional object is a sequence of length <= 1.  *)
(***************************************************************************)
EXTENDS Integers, Sequences, FiniteSets, TLC

VARIABLES
    fs,        \* the files on disk: file name -> content
    pa,        \* the PlatformAdmin object: students, instructors, courses, enrollments
    reg,       \* the Enrollment object's _enrollments list
    loads,     \* number of load_data calls made so far (names the objects they build)
    origin,    \* history: file name -> the in-memory view save_data wrote it from
    last,      \* history: the last operation, its inputs and what it reported
    aPerson,   \* a Student or an Instructor object, if one was constructed
    aGrade,    \* a Grade object, if one was constructed
    aCourse,   \* a Course object with its assignments and its grade mapping
    aTeacher,  \* an Instructor object with its courses_taught and assignments
    clock,     \* what datetime.now() returns
    session    \* where the menu loop of the E_Learning_Environment stands

vars ==
    <<fs, pa, reg, loads, origin, last, aPerson, aGrade, aCourse, aTeacher, clock, session>>

\* the variables of load_data, save_data and the Enrollment registry, and of
\* the menu session that calls them
persistence == <<fs, pa, reg, loads, origin, session>>

\* the variables of the entity classes exercised on their own
entities == <<aPerson, aGrade, aCourse, aTeacher, clock>>

-----------------------------------------------------------------------------
(* Bounds of the model *)

MaxRecords == 2       \* length of the sequence a document family varies
MaxLoads == 2         \* load_data calls in one behaviour
MaxEnrollments == 2   \* entries of the Enrollment registry
MaxTime == 2          \* the latest reading of the clock
MaxAssignments == 2   \* assignments of one course

-----------------------------------------------------------------------------
(* Python values *)

None == "None"

Range(s) == {s[i] : i \in DOMAIN s}

SeqsUpTo(S, n) == UNION {[1..k -> S] : k \in 0..n}

\* dict.get(key, default)
Get(d, key, default) == IF key \in DOMAIN d THEN d[key] ELSE default

\* a dict without one of its keys
Without(d, key) == [k \in DOMAIN d \ {key} |-> d[k]]

\* next((x for x in seq if cond), None), I being the indices of seq that meet
\* cond: the first of them, 0 for None
FirstIndex(I) == IF I = {} THEN 0 ELSE CHOOSE i \in I : \A j \in I : i <= j

\* the except clauses of load_data and save_data: JSONDecodeError,
\* FileNotFoundError, then Exception, which is a base of every error raised here
Exceptions == {"JSONDecodeError", "FileNotFoundError", "PermissionError",
               "TypeError", "KeyError"}

\* the handlers without the final except Exception clause
load_data_handlers_without_catch_all == {"JSONDecodeError", "FileNotFoundError"}

load_data_handlers == {"JSONDecodeError", "FileNotFoundError"} \cup Exceptions

\* save_data without its except clause
save_data_without_handlers == {}

save_data_handlers == Exceptions

-----------------------------------------------------------------------------
(* Entities *)

PersonKeys == {"name", "email", "contact_number", "address"}

\* Instructor.__init__(name, email, contact_number, address, instructor_id, role)
InstructorRequired == PersonKeys \cup {"instructor_id"}

InstructorAccepted == InstructorRequired \cup {"role"}

\* Instructor(**inst_data): the fields are stored as given, no setter runs
Instructor(inst_data, oid) ==
    [oid |-> oid,
     instructor_id |-> inst_data.instructor_id,
     name |-> inst_data.name,
     email |-> inst_data.email,
     contact_number |-> inst_data.contact_number,
     address |-> inst_data.address,
     role |-> Get(inst_data, "role", "Instructor"),
     courses_taught |-> <<>>,
     assignments |-> <<>>]

\* a Course object as seen through a reference to it
CourseRef(c) ==
    [oid |-> c.oid, course_name |-> c.course_name, course_code |-> c.course_code,
     instructor_id |-> c.instructor.instructor_id, units |-> c.units]

\* a Student object as seen through a reference to it
StudentRef(s) == [oid |-> s.oid, student_id |-> s.student_id, name |-> s.name]

InstructorRef(i) == [oid |-> i.oid, instructor_id |-> i.instructor_id, name |-> i.name]

\* Course.__init__
Course(course_name, course_code, instructor, units, oid) ==
    [oid |-> oid,
     course_name |-> course_name,
     course_code |-> course_code,
     instructor |-> InstructorRef(instructor),
     units |-> units,
     _students |-> <<>>,
     assignments |-> <<>>,
     grades |-> <<>>,
     enrolled_students |-> <<>>,
     schedule |-> <<>>]

\* Student.__init__: enrolled_courses defaults to a new empty list
Student(name, email, contact_number, address, student_id, year_level, program, gpa, birth_date, oid) ==
    [oid |-> oid,
     name |-> name,
     email |-> email,
     contact_number |-> contact_number,
     address |-> address,
     student_id |-> student_id,
     year_level |-> year_level,
     program |-> program,
     gpa |-> gpa,
     birth_date |-> birth_date,
     role |-> "Student",
     enrolled_courses |-> <<>>]

\* Student.enroll: append the course unless that object is already listed
enroll(student, course) ==
    IF course \in Range(student.enrolled_courses)
    THEN student
    ELSE [student EXCEPT !.enrolled_courses = Append(@, course)]

StudentRequired ==
    PersonKeys \cup {"student_id", "year_level", "program"}

\* Student_from_dict_raises, were a listed course that no loaded course matches
\* an error as well
Student_from_dict_raises_on_unknown_course(data, all_courses) ==
    \/ ~(StudentRequired \subseteq DOMAIN data)
    \/ \E k \in DOMAIN Get(data, "enrolled_courses", <<>>) :
           \/ "course_code" \notin DOMAIN data.enrolled_courses[k]
           \/ \A x \in DOMAIN all_courses :
                  all_courses[x].course_code # data.enrolled_courses[k].course_code

\* Student.from_dict raises KeyError on a missing constructor key, and on an
\* enrolled_courses entry without course_code as soon as the generator over
\* all_courses evaluates its condition, that is when all_courses is not empty
Student_from_dict_raises(data, all_courses) ==
    \/ ~(StudentRequired \subseteq DOMAIN data)
    \/ /\ all_courses # <<>>
       /\ \E k \in DOMAIN Get(data, "enrolled_courses", <<>>) :
              "course_code" \notin DOMAIN data.enrolled_courses[k]

RECURSIVE enroll_listed(_, _, _, _)
\* the loop of Student.from_dict over data.get('enrolled_courses', [])
enroll_listed(student, listed, k, all_courses) ==
    IF k > Len(listed) THEN student
    ELSE LET course_data == listed[k]
             MatchesCode(c) == c.course_code = course_data.course_code
             i == IF all_courses = <<>> THEN 0 ELSE FirstIndex({x \in DOMAIN all_courses : MatchesCode(all_courses[x])})
         IN  enroll_listed(
                 IF i = 0 THEN student ELSE enroll(student, CourseRef(all_courses[i])),
                 listed, k + 1, all_courses)

\* Student.from_dict, for data it does not raise on
Student_from_dict(data, all_courses, oid) ==
    enroll_listed(
        Student(data.name, data.email, data.contact_number, data.address,
                data.student_id, data.year_level, data.program,
                Get(data, "gpa", 0), Get(data, "birth_date", None), oid),
        Get(data, "enrolled_courses", <<>>), 1, all_courses)

\* Course.to_dict
Course_to_dict(course) ==
    [course_name |-> course.course_name,
     course_code |-> course.course_code,
     instructor_id |-> course.instructor_id,
     units |-> course.units]

\* Student_to_dict, were the gpa and the enrolled courses left out of the dict
Student_to_dict_without_gpa(student) ==
    [name |-> student.name,
     email |-> student.email,
     contact_number |-> student.contact_number,
     address |-> student.address,
     student_id |-> student.student_id,
     year_level |-> student.year_level,
     program |-> student.program,
     birth_date |-> student.birth_date]

\* Student.to_dict
Student_to_dict(student) ==
    [name |-> student.name,
     email |-> student.email,
     contact_number |-> student.contact_number,
     address |-> student.address,
     student_id |-> student.student_id,
     year_level |-> student.year_level,
     program |-> student.program,
     gpa |-> student.gpa,
     birth_date |-> student.birth_date,
     enrolled_courses |->
         [k \in DOMAIN student.enrolled_courses |->
             Course_to_dict(student.enrolled_courses[k])]]

\* Instructor.to_dict
Instructor_to_dict(instructor) ==
    [instructor_id |-> instructor.instructor_id,
     name |-> instructor.name,
     email |-> instructor.email,
     contact_number |-> instructor.contact_number,
     address |-> instructor.address,
     role |-> instructor.role,
     courses_taught |->
         [k \in DOMAIN instructor.courses_taught |->
             instructor.courses_taught[k].course_code]]

-----------------------------------------------------------------------------
(* PlatformAdmin.load_data, phase by phase.  A phase yields what it built,  *)
(* the exception that ended it (None when it ran through) and the messages  *)
(* it printed.                                                              *)

\* PlatformAdmin.__init__
PlatformAdmin ==
    [students |-> <<>>, instructors |-> <<>>, courses |-> <<>>, enrollments |-> <<>>]

\* Instructor(**inst_data) raises TypeError on a missing or an unexpected keyword
Instructor_raises(inst_data) ==
    \/ ~(InstructorRequired \subseteq DOMAIN inst_data)
    \/ ~(DOMAIN inst_data \subseteq InstructorAccepted)

\* the list comprehension of the instructors phase
load_instructors(recs, n) ==
    IF \E k \in DOMAIN recs : Instructor_raises(recs[k])
    THEN [value |-> <<>>, error |-> "TypeError"]
    ELSE [value |-> [k \in DOMAIN recs |-> Instructor(recs[k], <<n, k>>)],
          error |-> None]

CourseRequired == {"course_name", "course_code", "units"}

\* load_course, were an unknown instructor_id an error instead of a skip
load_course_unresolved_raises(course_data, instructors, courses, out, oid) ==
    LET instructor_id == Get(course_data, "instructor_id", None)
        HasId(i) == i.instructor_id = instructor_id
        i == FirstIndex({x \in DOMAIN instructors : HasId(instructors[x])})
    IN  IF i = 0 \/ ~(CourseRequired \subseteq DOMAIN course_data)
        THEN [courses |-> courses, error |-> "KeyError", out |-> out]
        ELSE [courses |-> Append(courses,
                                 Course(course_data.course_name, course_data.course_code,
                                        instructors[i], course_data.units, oid)),
              error |-> None, out |-> out]

\* the body of the courses loop for one record: a course whose instructor_id
\* no loaded instructor has is reported and skipped
load_course(course_data, instructors, courses, out, oid) ==
    LET instructor_id == Get(course_data, "instructor_id", None)
        HasId(i) == i.instructor_id = instructor_id
        i == FirstIndex({x \in DOMAIN instructors : HasId(instructors[x])})
    IN  IF i = 0
        THEN [courses |-> courses, error |-> None,
              out |-> Append(out, "Warning: Instructor ID not found")]
        ELSE IF ~(CourseRequired \subseteq DOMAIN course_data)
        THEN [courses |-> courses, error |-> "KeyError", out |-> out]
        ELSE [courses |-> Append(courses,
                                 Course(course_data.course_name, course_data.course_code,
                                        instructors[i], course_data.units, oid)),
              error |-> None, out |-> out]

RECURSIVE load_courses(_, _, _, _, _, _)
\* the loop of the courses phase, from record k on; courses is self.courses so far
load_courses(recs, k, instructors, courses, out, n) ==
    IF k > Len(recs) THEN [courses |-> courses, error |-> None, out |-> out]
    ELSE LET r == load_course(recs[k], instructors, courses, out, <<n, k>>)
         IN  IF r.error # None THEN r
             ELSE load_courses(recs, k + 1, instructors, r.courses, r.out, n)

\* the list comprehension of the students phase
load_students(recs, courses, n) ==
    IF \E k \in DOMAIN recs : Student_from_dict_raises(recs[k], courses)
    THEN [value |-> <<>>, error |-> "KeyError"]
    ELSE [value |-> [k \in DOMAIN recs |-> Student_from_dict(recs[k], courses, <<n, k>>)],
          error |-> None]

\* link_enrollment, were the append to course.enrolled_students left out
link_enrollment_student_side_only(enrollment_data, students, courses, out) ==
    LET has_sid == "student_id" \in DOMAIN enrollment_data
        has_code == "course_code" \in DOMAIN enrollment_data
        HasSid(s) == s.student_id = enrollment_data.student_id
        HasCode(c) == c.course_code = enrollment_data.course_code
        si == IF students = <<>> \/ ~has_sid THEN 0 ELSE FirstIndex({x \in DOMAIN students : HasSid(students[x])})
        ci == IF courses = <<>> \/ ~has_code THEN 0 ELSE FirstIndex({x \in DOMAIN courses : HasCode(courses[x])})
    IN  IF ~has_sid \/ ~has_code
        THEN [students |-> students, courses |-> courses, error |-> "KeyError",
              out |-> out]
        ELSE IF si # 0 /\ ci # 0
        THEN [students |-> [students EXCEPT ![si] = enroll(@, CourseRef(courses[ci]))],
              courses |-> courses, error |-> None, out |-> out]
        ELSE [students |-> students, courses |-> courses, error |-> None,
              out |-> (IF si = 0 THEN <<"Warning: Student ID not found">> ELSE <<>>)
                      \o (IF ci = 0 THEN <<"Warning: Course code not found">> ELSE <<>>)]

\* the body of the enrollments loop for one record
link_enrollment(enrollment_data, students, courses, out) ==
    LET has_sid == "student_id" \in DOMAIN enrollment_data
        has_code == "course_code" \in DOMAIN enrollment_data
        HasSid(s) == s.student_id = enrollment_data.student_id
        HasCode(c) == c.course_code = enrollment_data.course_code
        si == IF students = <<>> \/ ~has_sid THEN 0 ELSE FirstIndex({x \in DOMAIN students : HasSid(students[x])})
        ci == IF courses = <<>> \/ ~has_code THEN 0 ELSE FirstIndex({x \in DOMAIN courses : HasCode(courses[x])})
        fail(o) == [students |-> students, courses |-> courses,
                    error |-> "KeyError", out |-> o]
    IN  IF students # <<>> /\ ~has_sid THEN fail(out)
        ELSE IF courses # <<>> /\ ~has_code THEN fail(out)
        ELSE IF si # 0 /\ ci # 0
        THEN [students |-> [students EXCEPT ![si] = enroll(@, CourseRef(courses[ci]))],
              courses |-> [courses EXCEPT ![ci].enrolled_students =
                                              Append(@, StudentRef(students[si]))],
              error |-> None, out |-> out]
        ELSE IF si = 0 /\ ~has_sid THEN fail(out)
        ELSE LET o1 == IF si = 0 THEN Append(out, "Warning: Student ID not found")
                       ELSE out
             IN  IF ci = 0 /\ ~has_code THEN fail(o1)
                 ELSE [students |-> students, courses |-> courses, error |-> None,
                       out |-> IF ci = 0
                               THEN Append(o1, "Warning: Course code not found")
                               ELSE o1]

RECURSIVE load_enrollments(_, _, _, _, _)
\* the loop of the enrollments phase, from record k on
load_enrollments(recs, k, students, courses, out) ==
    IF k > Len(recs)
    THEN [students |-> students, courses |-> courses, error |-> None, out |-> out]
    ELSE LET r == link_enrollment(recs[k], students, courses, out)
         IN  IF r.error # None THEN r
             ELSE load_enrollments(recs, k + 1, r.students, r.courses, r.out)

\* the body of the schedules loop for one record
set_schedule(schedule_data, courses, out) ==
    LET has_code == "course_code" \in DOMAIN schedule_data
        HasCode(c) == c.course_code = schedule_data.course_code
        ci == IF courses = <<>> \/ ~has_code THEN 0 ELSE FirstIndex({x \in DOMAIN courses : HasCode(courses[x])})
    IN  IF ~has_code THEN [courses |-> courses, error |-> "KeyError", out |-> out]
        ELSE IF ci = 0
        THEN [courses |-> courses, error |-> None,
              out |-> Append(out, "Warning: Course code not found for schedule")]
        ELSE IF ~({"day", "time"} \subseteq DOMAIN schedule_data)
        THEN [courses |-> courses, error |-> "KeyError", out |-> out]
        ELSE [courses |-> [courses EXCEPT ![ci].schedule =
                              <<[day |-> schedule_data.day, time |-> schedule_data.time]>>],
              error |-> None, out |-> out]

RECURSIVE load_schedules(_, _, _, _)
\* the loop of the schedules phase, from record k on
load_schedules(recs, k, courses, out) ==
    IF k > Len(recs) THEN [courses |-> courses, error |-> None, out |-> out]
    ELSE LET r == set_schedule(recs[k], courses, out)
         IN  IF r.error # None THEN r
             ELSE load_schedules(recs, k + 1, r.courses, r.out)

\* what load_data, having caught or not caught error in the named phase, returns
Outcome(self, phase, error, out) ==
    [self |-> self, phase |-> phase, error |-> error,
     escaped |-> error # None /\ error \notin load_data_handlers,
     out |-> IF error = None THEN out ELSE Append(out, "Error: " \o error)]

\* load_data from the schedules phase on
load_data_schedules(self, data, out) ==
    LET sc == load_schedules(Get(data, "schedules", <<>>), 1, self.courses, out)
    IN  Outcome([self EXCEPT !.courses = sc.courses],
                IF sc.error = None THEN "done" ELSE "schedules", sc.error, sc.out)

\* load_data from the enrollments phase on: self.enrollments = [], then the loop
load_data_enrollments(self, data, out) ==
    LET e == load_enrollments(Get(data, "enrollments", <<>>), 1,
                              self.students, self.courses, out)
        linked == [self EXCEPT !.enrollments = <<>>,
                               !.students = e.students, !.courses = e.courses]
    IN  IF e.error # None THEN Outcome(linked, "enrollments", e.error, e.out)
        ELSE load_data_schedules(linked, data, e.out)

\* load_data_students, were the students phase to enter each student in the
\* enrolled_students of the courses it enrolls the student in
load_data_students_fills_rosters(self, data, out, n) ==
    LET st == load_students(Get(data, "students", <<>>), self.courses, n)
        Roster(c) ==
            LET Takes(s) == c.oid \in {s.enrolled_courses[j].oid :
                                          j \in DOMAIN s.enrolled_courses}
                taking == SelectSeq(st.value, Takes)
            IN  [j \in DOMAIN taking |-> StudentRef(taking[j])]
    IN  IF st.error # None THEN Outcome(self, "students", st.error, out)
        ELSE load_data_enrollments(
                 [self EXCEPT !.students = st.value,
                              !.courses = [k \in DOMAIN self.courses |->
                                              [self.courses[k] EXCEPT
                                                  !.enrolled_students =
                                                      Roster(self.courses[k])]]],
                 data, out)

\* load_data from the students phase on
load_data_students(self, data, out, n) ==
    LET st == load_students(Get(data, "students", <<>>), self.courses, n)
    IN  IF st.error # None THEN Outcome(self, "students", st.error, out)
        ELSE load_data_enrollments([self EXCEPT !.students = st.value], data, out)

\* load_data from the courses phase on: self.courses = [], then the loop
load_data_courses(self, data, n) ==
    LET c == load_courses(Get(data, "courses", <<>>), 1, self.instructors, <<>>, <<>>, n)
        loaded == [self EXCEPT !.courses = c.courses]
    IN  IF c.error # None THEN Outcome(loaded, "courses", c.error, c.out)
        ELSE load_data_students(loaded, data, c.out, n)

\* load_data from the instructors phase on
load_data_instructors(self, data, n) ==
    LET i == load_instructors(Get(data, "instructors", <<>>), n)
    IN  IF i.error # None THEN Outcome(self, "instructors", i.error, <<>>)
        ELSE load_data_courses([self EXCEPT !.instructors = i.value], data, n)

\* PlatformAdmin.load_data(filename), as the n-th call, on a file of this content
load_data(self, content, n) ==
    IF content.kind = "missing"
    THEN Outcome(self, "open", None, <<"File not found. Starting with empty data.">>)
    ELSE IF content.kind = "unreadable"
    THEN Outcome(self, "open", "PermissionError", <<>>)
    ELSE IF content.kind = "badjson"
    THEN Outcome(self, "open", "JSONDecodeError", <<>>)
    ELSE load_data_instructors(self, content.data, n)

-----------------------------------------------------------------------------
(* PlatformAdmin.save_data *)

RECURSIVE enrollment_pairs(_, _)
\* [{student_id, course_code} for student in students for course in
\*  student.enrolled_courses], from student k on
enrollment_pairs(students, k) ==
    IF k > Len(students) THEN <<>>
    ELSE [j \in DOMAIN students[k].enrolled_courses |->
             [student_id |-> students[k].student_id,
              course_code |-> students[k].enrolled_courses[j].course_code]]
         \o enrollment_pairs(students, k + 1)

HasSchedule(course) == course.schedule # <<>>

\* the schedules entry of one course that has a schedule
schedule_entry(course) ==
    [course_code |-> course.course_code,
     day |-> course.schedule[1].day,
     time |-> course.schedule[1].time]

RECURSIVE roster_pairs(_, _)
\* the pairs of the courses' enrolled_students, from course k on
roster_pairs(courses, k) ==
    IF k > Len(courses) THEN <<>>
    ELSE [j \in DOMAIN courses[k].enrolled_students |->
             [student_id |-> courses[k].enrolled_students[j].student_id,
              course_code |-> courses[k].course_code]]
         \o roster_pairs(courses, k + 1)

\* save_document, were the enrollments taken from the courses' enrolled_students
save_document_from_rosters(self) ==
    LET scheduled == SelectSeq(self.courses, HasSchedule)
    IN  [students |-> [k \in DOMAIN self.students |-> Student_to_dict(self.students[k])],
         instructors |->
             [k \in DOMAIN self.instructors |-> Instructor_to_dict(self.instructors[k])],
         courses |->
             [k \in DOMAIN self.courses |-> Course_to_dict(CourseRef(self.courses[k]))],
         enrollments |-> roster_pairs(self.courses, 1),
         schedules |-> [k \in DOMAIN scheduled |-> schedule_entry(scheduled[k])]]

\* the dict save_data builds and dumps
save_document(self) ==
    LET scheduled == SelectSeq(self.courses, HasSchedule)
    IN  [students |-> [k \in DOMAIN self.students |-> Student_to_dict(self.students[k])],
         instructors |->
             [k \in DOMAIN self.instructors |-> Instructor_to_dict(self.instructors[k])],
         courses |->
             [k \in DOMAIN self.courses |-> Course_to_dict(CourseRef(self.courses[k]))],
         enrollments |-> enrollment_pairs(self.students, 1),
         schedules |-> [k \in DOMAIN scheduled |-> schedule_entry(scheduled[k])]]

Missing == [kind |-> "missing"]

Unreadable == [kind |-> "unreadable"]

BadJson == [kind |-> "badjson"]

Document(data) == [kind |-> "doc", data |-> data]

\* save_data(filename) on a file of this content; io is what the file system
\* does: "ok", "open_fails" (open raises, the file is untouched) or
\* "write_fails" (open has truncated the file, the dump then raises)
save_data(self, content, io) ==
    LET error == IF io = "ok" THEN None ELSE "PermissionError"
    IN  [self |-> self,
         content |-> IF io = "ok" THEN Document(save_document(self))
                     ELSE IF io = "open_fails" THEN content
                     ELSE BadJson,
         error |-> error,
         escaped |-> error # None /\ error \notin save_data_handlers,
         out |-> IF error = None THEN <<"Data successfully saved">>
                 ELSE <<"Error saving data: " \o error>>]

-----------------------------------------------------------------------------
(* Enrollment *)

\* is_student_enrolled, were it to compare the entry's student with the course
\* as well, a test no entry passes
is_student_enrolled_never(_enrollments, student, course) ==
    \E k \in DOMAIN _enrollments :
        /\ _enrollments[k].student.oid = student.oid
        /\ _enrollments[k].course.oid = course.oid
        /\ _enrollments[k].student.student_id = course.course_code

\* Enrollment.is_student_enrolled
is_student_enrolled(_enrollments, student, course) ==
    \E k \in DOMAIN _enrollments :
        /\ _enrollments[k].student.oid = student.oid
        /\ _enrollments[k].course.oid = course.oid

\* Course.add_student
add_student(course, student) ==
    IF \E k \in DOMAIN course._students : course._students[k].oid = student.oid
    THEN course
    ELSE [course EXCEPT !._students = Append(@, StudentRef(student))]

\* Course.remove_student: pass
remove_student(course, student) == course

\* enroll_student without the is_student_enrolled test
enroll_student_unguarded(_enrollments, student, course) ==
    [_enrollments |-> Append(_enrollments,
                             [student |-> StudentRef(student),
                              course |-> CourseRef(course)]),
     course |-> add_student(course, student),
     out |-> "has been enrolled"]

\* Enrollment.enroll_student: the registry and the course after the call
enroll_student(_enrollments, student, course) ==
    IF ~is_student_enrolled(_enrollments, student, course)
    THEN [_enrollments |-> Append(_enrollments,
                                  [student |-> StudentRef(student),
                                   course |-> CourseRef(course)]),
          course |-> add_student(course, student),
          out |-> "has been enrolled"]
    ELSE [_enrollments |-> _enrollments, course |-> course,
          out |-> "is already enrolled"]

\* list.remove of the entry at position k
RemoveAt(seq, k) == [j \in 1..(Len(seq) - 1) |-> IF j < k THEN seq[j] ELSE seq[j + 1]]

\* Enrollment.unenroll_student: the registry and the course after the call
unenroll_student(_enrollments, student, course) ==
    LET IsPair(e) == e.student.oid = student.oid /\ e.course.oid = course.oid
        k == FirstIndex({x \in DOMAIN _enrollments : IsPair(_enrollments[x])})
    IN  IF k # 0
        THEN [_enrollments |-> RemoveAt(_enrollments, k),
              course |-> remove_student(course, student),
              out |-> "has been unenrolled"]
        ELSE [_enrollments |-> _enrollments, course |-> course,
              out |-> "is not enrolled"]

-----------------------------------------------------------------------------
(* The documents the model starts from: records as a hand-written or saved  *)
(* data.json holds them, well-formed and not.                               *)

\* the paths load_data is called with; only SaveFiles are ever written
Files == {"data.json", "absent.json"}

SaveFiles == {"data.json"}

PersonData(name) ==
    [name |-> name, email |-> "user@school.edu",
     contact_number |-> "09170000000", address |-> "12 Main St"]

instructor_record(id) == PersonData("Prof " \o id) @@ [instructor_id |-> id]

course_record(code, instructor_id) ==
    [course_name |-> "Course " \o code, course_code |-> code,
     instructor_id |-> instructor_id, units |-> 3]

student_record(id, listed) ==
    PersonData("Student " \o id) @@
    [student_id |-> id, year_level |-> "1", program |-> "BSCS", gpa |-> 3,
     birth_date |-> "2000-01-01", enrolled_courses |-> listed]

listed_course(code) == [course_code |-> code]

enrollment_record(student_id, code) == [student_id |-> student_id, course_code |-> code]

schedule_record(code) == [course_code |-> code, day |-> "Monday", time |-> "09:00"]

InstructorRecords ==
    {instructor_record("I1"),
     instructor_record("I2"),
     instructor_record("I1") @@ [role |-> "Instructor"],
     instructor_record("I2") @@ [courses_taught |-> <<>>],
     Without(instructor_record("I2"), "address")}

CourseRecords ==
    {course_record("C1", "I1"),
     course_record("C2", "I1"),
     course_record("C2", "I2"),
     course_record("C1", "I1") @@ [room |-> "R1"],
     Without(course_record("C1", "I1"), "units"),
     Without(course_record("C2", "I1"), "instructor_id")}

StudentRecords ==
    {student_record("S1", <<>>),
     student_record("S1", <<listed_course("C2"), listed_course("C1")>>),
     student_record("S1", <<listed_course("C1"), listed_course("C1")>>),
     student_record("S2", <<listed_course("C1")>>),
     student_record("S2", <<listed_course("C3"), listed_course("C1")>>),
     Without(Without(Without(student_record("S2", <<>>), "gpa"), "birth_date"),
             "enrolled_courses"),
     Without(student_record("S2", <<>>), "program"),
     student_record("S1", <<[course_name |-> "Course C1"]>>)}

EnrollmentRecords ==
    {enrollment_record("S1", "C1"),
     enrollment_record("S2", "C1"),
     enrollment_record("S1", "C2"),
     enrollment_record("S3", "C1"),
     enrollment_record("S1", "C3"),
     Without(enrollment_record("S1", "C1"), "course_code")}

ScheduleRecords ==
    {schedule_record("C1"),
     schedule_record("C3"),
     Without(schedule_record("C1"), "time")}

Admins == <<[email |-> "admin@school.edu", password |-> "secret"]>>

EmptyData ==
    [admins |-> Admins, instructors |-> <<>>, courses |-> <<>>, students |-> <<>>,
     enrollments |-> <<>>, schedules |-> <<>>]

BaseData ==
    [admins |-> Admins,
     instructors |-> <<instructor_record("I1")>>,
     courses |-> <<course_record("C1", "I1"), course_record("C2", "I1")>>,
     students |-> <<student_record("S1", <<listed_course("C2"), listed_course("C1")>>),
                    student_record("S2", <<listed_course("C1")>>)>>,
     enrollments |-> <<enrollment_record("S1", "C1")>>,
     schedules |-> <<schedule_record("C1")>>]

\* base with one of its sequences replaced by any sequence of up to MaxRecords records
Vary(base, key, Records) ==
    {[base EXCEPT ![key] = recs] : recs \in SeqsUpTo(Records, MaxRecords)}

VaryEach(base) ==
    Vary(base, "instructors", InstructorRecords)
    \cup Vary(base, "courses", CourseRecords)
    \cup Vary(base, "students", StudentRecords)
    \cup Vary(base, "enrollments", EnrollmentRecords)
    \cup Vary(base, "schedules", ScheduleRecords)

InitialData == VaryEach(EmptyData) \cup VaryEach(BaseData)

InitialContents ==
    {Missing, Unreadable, BadJson} \cup {Document(data) : data \in InitialData}

-----------------------------------------------------------------------------
(* What save_data and load_data are compared on: the entities by key and    *)
(* fields, the enrollment pairs, each student's courses in order.           *)

StudentView(student) ==
    [name |-> student.name, email |-> student.email,
     contact_number |-> student.contact_number, address |-> student.address,
     student_id |-> student.student_id, year_level |-> student.year_level,
     program |-> student.program, gpa |-> student.gpa,
     birth_date |-> student.birth_date,
     enrolled_courses |->
         [k \in DOMAIN student.enrolled_courses |->
             student.enrolled_courses[k].course_code]]

InstructorView(instructor) ==
    [instructor_id |-> instructor.instructor_id, name |-> instructor.name,
     email |-> instructor.email, contact_number |-> instructor.contact_number,
     address |-> instructor.address, role |-> instructor.role]

View(self) ==
    [students |-> {StudentView(s) : s \in Range(self.students)},
     instructors |-> {InstructorView(i) : i \in Range(self.instructors)},
     courses |-> {Course_to_dict(CourseRef(c)) : c \in Range(self.courses)},
     enrollments |->
         UNION {{<<s.student_id, c.course_code>> : c \in Range(s.enrolled_courses)} :
                    s \in Range(self.students)}]

-----------------------------------------------------------------------------
(* The state machine *)

\* no E_Learning_Environment has been constructed
NoSession == [at |-> "none", student |-> 0]

\* no entity has been constructed outside the PlatformAdmin
NoEntities ==
    /\ aPerson = <<>>
    /\ aGrade = <<>>
    /\ aCourse = <<>>
    /\ aTeacher = <<>>
    /\ clock = 0

Init ==
    /\ \E content \in InitialContents :
           fs = [f \in Files |-> IF f = "data.json" THEN content ELSE Missing]
    /\ pa = PlatformAdmin
    /\ reg = <<>>
    /\ loads = 0
    /\ origin = [f \in Files |-> <<>>]
    /\ session = NoSession
    /\ last = [op |-> "start"]
    /\ NoEntities

\* PlatformAdmin(): a new, empty object takes the place of the old one
NewPlatformAdmin ==
    /\ pa # PlatformAdmin
    /\ pa' = PlatformAdmin
    /\ last' = [op |-> "PlatformAdmin"]
    /\ UNCHANGED <<fs, reg, loads, origin, session>>
    /\ UNCHANGED entities

\* pa.load_data(f)
LoadData(f) ==
    /\ loads < MaxLoads
    /\ LET r == load_data(pa, fs[f], loads + 1)
       IN  /\ pa' = r.self
           /\ last' = [op |-> "load_data", file |-> f, content |-> fs[f],
                       fresh |-> (pa = PlatformAdmin), phase |-> r.phase,
                       error |-> r.error, escaped |-> r.escaped, out |-> r.out]
    /\ loads' = loads + 1
    /\ UNCHANGED <<fs, reg, origin, session>>
    /\ UNCHANGED entities

\* pa.save_data(f), the file system doing io
SaveData(f, io) ==
    /\ LET r == save_data(pa, fs[f], io)
       IN  /\ pa' = r.self
           /\ fs' = [fs EXCEPT ![f] = r.content]
           /\ origin' = [origin EXCEPT ![f] = IF io = "ok" THEN <<View(pa)>>
                                              ELSE IF io = "open_fails" THEN @
                                              ELSE <<>>]
           /\ last' = [op |-> "save_data", file |-> f, io |-> io,
                       error |-> r.error, escaped |-> r.escaped, out |-> r.out]
    /\ UNCHANGED <<reg, loads, session>>
    /\ UNCHANGED entities

\* Enrollment.enroll_student(pa.students[si], pa.courses[ci])
EnrollStudent(si, ci) ==
    /\ \/ Len(reg) < MaxEnrollments
       \/ is_student_enrolled(reg, pa.students[si], pa.courses[ci])
    /\ LET r == enroll_student(reg, pa.students[si], pa.courses[ci])
       IN  /\ reg' = r._enrollments
           /\ pa' = [pa EXCEPT !.courses[ci] = r.course]
           /\ last' = [op |-> "enroll_student", student |-> si, course |-> ci,
                       out |-> r.out]
    /\ UNCHANGED <<fs, loads, origin, session>>
    /\ UNCHANGED entities

\* Enrollment.unenroll_student(pa.students[si], pa.courses[ci])
UnenrollStudent(si, ci) ==
    /\ LET r == unenroll_student(reg, pa.students[si], pa.courses[ci])
       IN  /\ reg' = r._enrollments
           /\ pa' = [pa EXCEPT !.courses[ci] = r.course]
           /\ last' = [op |-> "unenroll_student", student |-> si, course |-> ci,
                       out |-> r.out]
    /\ UNCHANGED <<fs, loads, origin, session>>
    /\ UNCHANGED entities

\* the persistence operations, as the program's start-up and exit make them
Next ==
    \/ NewPlatformAdmin
    \/ \E f \in Files : LoadData(f)
    \/ \E f \in SaveFiles, io \in {"ok", "open_fails", "write_fails"} : SaveData(f, io)

Spec == Init /\ [][Next]_vars

\* the Enrollment registry at work on the students and courses of a loaded document
EnrollInit ==
    /\ \E data \in {BaseData,
                    [BaseData EXCEPT !.students = <<student_record("S1", <<>>)>>]} :
           fs = [f \in Files |-> IF f = "data.json" THEN Document(data) ELSE Missing]
    /\ pa = PlatformAdmin
    /\ reg = <<>>
    /\ loads = 0
    /\ origin = [f \in Files |-> <<>>]
    /\ session = NoSession
    /\ last = [op |-> "start"]
    /\ NoEntities

EnrollNext ==
    \/ \E f \in SaveFiles : loads = 0 /\ LoadData(f)
    \/ \E si \in DOMAIN pa.students, ci \in DOMAIN pa.courses : EnrollStudent(si, ci)
    \/ \E si \in DOMAIN pa.students, ci \in DOMAIN pa.courses : UnenrollStudent(si, ci)

EnrollSpec == EnrollInit /\ [][EnrollNext]_vars

-----------------------------------------------------------------------------
(* Documents whose records all carry the fields load_data reads *)

WellFormedInstructors(data) ==
    \A k \in DOMAIN data.instructors :
        /\ InstructorRequired \subseteq DOMAIN data.instructors[k]
        /\ DOMAIN data.instructors[k] \subseteq InstructorAccepted

WellFormedCourses(data) ==
    \A k \in DOMAIN data.courses :
        CourseRequired \cup {"instructor_id"} \subseteq DOMAIN data.courses[k]

WellFormedStudents(data) ==
    \A k \in DOMAIN data.students :
        /\ StudentRequired \cup {"enrolled_courses"} \subseteq DOMAIN data.students[k]
        /\ \A j \in DOMAIN data.students[k].enrolled_courses :
               "course_code" \in DOMAIN data.students[k].enrolled_courses[j]

WellFormedEnrollments(data) ==
    \A k \in DOMAIN data.enrollments :
        {"student_id", "course_code"} \subseteq DOMAIN data.enrollments[k]

WellFormedSchedules(data) ==
    \A k \in DOMAIN data.schedules :
        {"course_code", "day", "time"} \subseteq DOMAIN data.schedules[k]

WellFormedThroughEnrollments(data) ==
    /\ WellFormedInstructors(data)
    /\ WellFormedCourses(data)
    /\ WellFormedStudents(data)
    /\ WellFormedEnrollments(data)

WellFormed(data) == WellFormedThroughEnrollments(data) /\ WellFormedSchedules(data)

\* the last operation was load_data on a file holding a JSON document
LoadedDocument == last.op = "load_data" /\ last.content.kind = "doc"

InstructorIds(data) == {data.instructors[k].instructor_id : k \in DOMAIN data.instructors}

\* the course record names an instructor the document has
Resolves(data, course_data) == course_data.instructor_id \in InstructorIds(data)

Oids(refs) == {refs[k].oid : k \in DOMAIN refs}

Codes(courses) == [k \in DOMAIN courses |-> courses[k].course_code]

-----------------------------------------------------------------------------
(* C1: save_data(f) followed by load_data(f) on a fresh PlatformAdmin       *)
(* reproduces the saved students, courses and instructors (by key and       *)
(* fields), the same (student_id, course_code) pairs and every student's    *)
(* enrolled_courses in order, for any saved state built from valid          *)
(* entities: unique keys, every referenced course and instructor present.   *)

KeysUnique(records, key) ==
    \A r1 \in records, r2 \in records : r1[key] = r2[key] => r1 = r2

ValidView(v) ==
    /\ KeysUnique(v.students, "student_id")
    /\ KeysUnique(v.courses, "course_code")
    /\ KeysUnique(v.instructors, "instructor_id")
    /\ \A c \in v.courses : \E i \in v.instructors : i.instructor_id = c.instructor_id
    /\ \A st \in v.students : \A k \in DOMAIN st.enrolled_courses :
           \E c \in v.courses : c.course_code = st.enrolled_courses[k]

C1_SaveThenLoadReproduces ==
    (/\ last.op = "load_data"
     /\ last.fresh
     /\ origin[last.file] # <<>>
     /\ ValidView(origin[last.file][1]))
    => View(pa) = origin[last.file][1]

(* C2: for any JSON-parseable document, a bad record (one lacking a         *)
(* required field or carrying an extra one) does not abort load_data: the   *)
(* load runs through every phase and the other records of each sequence are *)
(* materialized.                                                            *)
C2_BadRecordDoesNotAbortLoad ==
    LoadedDocument =>
        LET data == last.content.data
        IN  /\ last.phase = "done"
            /\ \A k \in DOMAIN data.instructors :
                   ~Instructor_raises(data.instructors[k]) =>
                       \E i \in Range(pa.instructors) :
                           i.instructor_id = data.instructors[k].instructor_id
            /\ \A k \in DOMAIN data.students :
                   StudentRequired \subseteq DOMAIN data.students[k] =>
                       \E st \in Range(pa.students) :
                           st.student_id = data.students[k].student_id

(* C3: when load_data reads a well-formed document in which some course     *)
(* names an instructor_id no loaded instructor has, the load runs through,  *)
(* the course collection holds exactly the courses whose instructor         *)
(* resolves, in document order, and the students, enrollments and schedules *)
(* phases run over those courses.                                           *)
C3_UnresolvedInstructorSkipsOnlyThatCourse ==
    (/\ LoadedDocument
     /\ WellFormed(last.content.data)
     /\ \E k \in DOMAIN last.content.data.courses :
            ~Resolves(last.content.data, last.content.data.courses[k]))
    => LET data == last.content.data
           Kept(course_data) == Resolves(data, course_data)
       IN  /\ last.phase = "done" /\ last.error = None
           /\ Codes(pa.courses) = Codes(SelectSeq(data.courses, Kept))
           /\ \A c \in Range(pa.courses) :
                  c.instructor.instructor_id \in InstructorIds(data)
           /\ [k \in DOMAIN pa.students |-> pa.students[k].student_id]
                  = [k \in DOMAIN data.students |-> data.students[k].student_id]
           /\ \A st \in Range(pa.students) :
                  Oids(st.enrolled_courses) \subseteq Oids(pa.courses)
           /\ \A k \in DOMAIN data.enrollments :
                  \A c \in Range(pa.courses), st \in Range(pa.students) :
                      (/\ c.course_code = data.enrollments[k].course_code
                       /\ st.student_id = data.enrollments[k].student_id)
                      => \E c2 \in Range(pa.courses) :
                             /\ c2.course_code = c.course_code
                             /\ \E r \in Range(c2.enrolled_students) :
                                    r.student_id = st.student_id
           /\ \A k \in DOMAIN data.schedules :
                  \A c \in Range(pa.courses) :
                      c.course_code = data.schedules[k].course_code
                      => \E c2 \in Range(pa.courses) :
                             c2.course_code = c.course_code /\ c2.schedule # <<>>

\* a load that skipped a course and kept another, with students loaded
C3_Witness ==
    /\ LoadedDocument
    /\ WellFormed(last.content.data)
    /\ \E k \in DOMAIN last.content.data.courses :
           ~Resolves(last.content.data, last.content.data.courses[k])
    /\ pa.courses # <<>>
    /\ Len(pa.courses) < Len(last.content.data.courses)
    /\ \E st \in Range(pa.students) : st.enrolled_courses # <<>>

(* C7: after load_data of any document no two courses share a course_code, *)
(* no two students a student_id and no two instructors an instructor_id.    *)
C7_LoadedKeysAreUnique ==
    LoadedDocument =>
        /\ \A j, k \in DOMAIN pa.courses :
               pa.courses[j].course_code = pa.courses[k].course_code => j = k
        /\ \A j, k \in DOMAIN pa.students :
               pa.students[j].student_id = pa.students[k].student_id => j = k
        /\ \A j, k \in DOMAIN pa.instructors :
               pa.instructors[j].instructor_id = pa.instructors[k].instructor_id => j = k

\* the last operation was load_data on a file that is missing, unreadable or
\* not valid JSON
LoadedNoDocument == last.op = "load_data" /\ last.content.kind # "doc"

Collections(self) == <<self.students, self.instructors, self.courses, self.enrollments>>

(* C8, as stated: when load_data is called in whatever state and the file   *)
(* is missing, unreadable or not valid JSON, the call returns without       *)
(* raising and students, instructors, courses and enrollments are all empty *)
(* afterwards.                                                              *)
C8_FailedLoadLeavesEmptyCollections ==
    LoadedNoDocument =>
        /\ ~last.escaped
        /\ Collections(pa) = <<<<>>, <<>>, <<>>, <<>>>>

(* C8, amended: when load_data is called in whatever state and the file is  *)
(* missing, unreadable or not valid JSON, the call returns without raising  *)
(* and leaves students, instructors, courses and enrollments as they were   *)
(* before the call; they are all empty afterwards when the PlatformAdmin    *)
(* was freshly constructed.                                                 *)
C8_FailedLoadLeavesCollectionsAsTheyWere ==
    [][\A f \in Files :
           (LoadData(f) /\ fs[f].kind # "doc")
           => /\ ~last'.escaped
              /\ Collections(pa') = Collections(pa)
              /\ (pa = PlatformAdmin => Collections(pa') = <<<<>>, <<>>, <<>>, <<>>>>)]_vars

\* a failed load on a PlatformAdmin that already held students
C8_Witness ==
    /\ LoadedNoDocument
    /\ ~last.fresh
    /\ pa.students # <<>>

(* C9: after load_data of a well-formed document, a student whose           *)
(* enrolled_courses lists a loaded course has that course in                *)
(* enrolled_courses, yet is in the course's enrolled_students only if an    *)
(* enrollments record names the pair: enrolled_students is filled from the  *)
(* enrollments phase alone.  So I1, C1 by I1, S1 listing C1 and no          *)
(* enrollments record give S1.enrolled_courses = [C1], C1.enrolled_students *)
(* empty.                                                                   *)
C9_RosterComesOnlyFromEnrollments ==
    (LoadedDocument /\ WellFormed(last.content.data))
    => LET data == last.content.data
       IN  /\ \A c \in Range(pa.courses) : \A r \in Range(c.enrolled_students) :
                  \E k \in DOMAIN data.enrollments :
                      /\ data.enrollments[k].student_id = r.student_id
                      /\ data.enrollments[k].course_code = c.course_code
           /\ \A k \in DOMAIN data.students :
                  \A j \in DOMAIN data.students[k].enrolled_courses :
                      LET code == data.students[k].enrolled_courses[j].course_code
                      IN  (\E c \in Range(pa.courses) : c.course_code = code)
                          => \E r \in Range(pa.students[k].enrolled_courses) :
                                 r.course_code = code
           /\ (data.enrollments = <<>> =>
                  \A k \in DOMAIN data.students :
                      \A r \in Range(pa.students[k].enrolled_courses) :
                          \E j \in DOMAIN data.students[k].enrolled_courses :
                              data.students[k].enrolled_courses[j].course_code
                                  = r.course_code)

\* a student enrolled by the students phase in a course whose roster is empty
C9_Witness ==
    /\ LoadedDocument
    /\ WellFormed(last.content.data)
    /\ \E st \in Range(pa.students), c \in Range(pa.courses) :
           /\ c.oid \in Oids(st.enrolled_courses)
           /\ c.enrolled_students = <<>>
           /\ \A k \in DOMAIN last.content.data.enrollments :
                  last.content.data.enrollments[k].course_code # c.course_code

\* the first loaded student (course) with the id (code) of an enrollments record
StudentOf(self, enrollment_data) ==
    LET HasSid(st) == st.student_id = enrollment_data.student_id
    IN  FirstIndex({x \in DOMAIN self.students : HasSid(self.students[x])})

CourseOf(self, enrollment_data) ==
    LET HasCode(c) == c.course_code = enrollment_data.course_code
    IN  FirstIndex({x \in DOMAIN self.courses : HasCode(self.courses[x])})

LinksBoth(self, enrollment_data) ==
    StudentOf(self, enrollment_data) # 0 /\ CourseOf(self, enrollment_data) # 0

Count(seq, x) == Cardinality({k \in DOMAIN seq : seq[k] = x})

RECURSIVE Sum(_, _)
\* the sum of f[k] over k in S
Sum(f, S) == IF S = {} THEN 0 ELSE LET k == CHOOSE x \in S : TRUE
                                   IN  f[k] + Sum(f, S \ {k})

(* C10: in the enrollments phase of load_data, every record whose           *)
(* student_id and course_code both resolve puts the course in the student's *)
(* enrolled_courses and the student in the course's enrolled_students;      *)
(* every record with a missing student or course is reported with a         *)
(* warning and links nothing: the rosters hold one entry per resolving      *)
(* record and the students' lists hold only listed or linked courses.       *)
C10_EnrollmentsPhaseLinksBothSides ==
    (LoadedDocument /\ WellFormedThroughEnrollments(last.content.data))
    => LET recs == last.content.data.enrollments
           data == last.content.data
       IN  /\ \A k \in DOMAIN recs :
                  LinksBoth(pa, recs[k]) =>
                      LET st == pa.students[StudentOf(pa, recs[k])]
                          c == pa.courses[CourseOf(pa, recs[k])]
                      IN  /\ c.oid \in Oids(st.enrolled_courses)
                          /\ st.oid \in Oids(c.enrolled_students)
           /\ Sum([k \in DOMAIN pa.courses |-> Len(pa.courses[k].enrolled_students)],
                  DOMAIN pa.courses)
                  = Cardinality({k \in DOMAIN recs : LinksBoth(pa, recs[k])})
           /\ \A k \in DOMAIN pa.students :
                  \A r \in Range(pa.students[k].enrolled_courses) :
                      \/ \E j \in DOMAIN Get(data.students[k], "enrolled_courses", <<>>) :
                             data.students[k].enrolled_courses[j].course_code
                                 = r.course_code
                      \/ \E j \in DOMAIN recs :
                             /\ LinksBoth(pa, recs[j])
                             /\ recs[j].student_id = pa.students[k].student_id
                             /\ recs[j].course_code = r.course_code
           /\ Count(last.out, "Warning: Student ID not found")
                  = Cardinality({k \in DOMAIN recs : StudentOf(pa, recs[k]) = 0})
           /\ Count(last.out, "Warning: Course code not found")
                  = Cardinality({k \in DOMAIN recs : CourseOf(pa, recs[k]) = 0})

\* a load that linked one record on both sides and skipped another
C10_Witness ==
    /\ LoadedDocument
    /\ WellFormedThroughEnrollments(last.content.data)
    /\ \E j, k \in DOMAIN last.content.data.enrollments :
           /\ LinksBoth(pa, last.content.data.enrollments[j])
           /\ ~LinksBoth(pa, last.content.data.enrollments[k])
    /\ \E c \in Range(pa.courses) : c.enrolled_students # <<>>

-----------------------------------------------------------------------------
(* The Enrollment registry (EnrollSpec) *)

Enrolled(si, ci) == is_student_enrolled(reg, pa.students[si], pa.courses[ci])

(* C4: after any sequence of enroll and unenroll operations the three views *)
(* agree: a pair is in the enrollment set if and only if the course is in   *)
(* the student's enrolled_courses and the student is in the course's        *)
(* enrolled_students.                                                       *)
C4_ThreeViewsAgree ==
    last.op \in {"enroll_student", "unenroll_student"} =>
        \A si \in DOMAIN pa.students, ci \in DOMAIN pa.courses :
            Enrolled(si, ci) <=>
                /\ pa.courses[ci].oid \in Oids(pa.students[si].enrolled_courses)
                /\ pa.students[si].oid \in Oids(pa.courses[ci].enrolled_students)

(* C5: Enrollment.enroll_student called with a pair that is already         *)
(* enrolled leaves the enrollment set, the course's student list and the    *)
(* student's course list as they were, and only reports the conflict.       *)
C5_SecondEnrollChangesNothing ==
    [][\A si \in DOMAIN pa.students, ci \in DOMAIN pa.courses :
           (Enrolled(si, ci) /\ EnrollStudent(si, ci))
           => /\ reg' = reg
              /\ pa' = pa
              /\ last'.out = "is already enrolled"]_vars

\* enroll_student has just been called with an enrolled pair
C5_Witness ==
    /\ last.op = "enroll_student"
    /\ last.out = "is already enrolled"
    /\ Enrolled(last.student, last.course)

(* C6: in every state reached by enroll_student and unenroll_student calls  *)
(* each (student, course) pair occurs at most once in the enrollment set.   *)
C6_PairsOccurOnce ==
    \A j, k \in DOMAIN reg :
        (reg[j].student.oid = reg[k].student.oid /\ reg[j].course.oid = reg[k].course.oid)
        => j = k

\* two entries in the registry, the last put there by an enroll after an unenroll
C6_Witness ==
    /\ Len(reg) >= 2
    /\ last.op = "enroll_student"
    /\ \E c \in Range(pa.courses) : Len(c._students) > Cardinality({reg[k].student.oid :
                                        k \in {j \in DOMAIN reg : reg[j].course.oid = c.oid}})

-----------------------------------------------------------------------------
(* The students phase and save_data (Spec) *)

\* a sequence without the repeats of its earlier elements
FirstOccurrences(seq) ==
    LET I == {j \in DOMAIN seq : \A i \in 1..(j - 1) : seq[i] # seq[j]}
    IN  [n \in 1..Cardinality(I) |->
            seq[CHOOSE j \in I : Cardinality({i \in I : i < j}) = n - 1]]

\* the course codes a students record lists
ListedCodes(student_data) ==
    [j \in DOMAIN student_data.enrolled_courses |->
        student_data.enrolled_courses[j].course_code]

\* the document reaches the students phase and every students record has the
\* fields Student.from_dict reads
WellFormedThroughStudents(data) ==
    /\ WellFormedInstructors(data)
    /\ WellFormedCourses(data)
    /\ WellFormedStudents(data)

(* C11: in the students phase of load_data, a student record whose          *)
(* enrolled_courses names a course code no loaded course has is still added *)
(* to the students collection: every record yields a student, in document   *)
(* order, and the student's enrolled_courses begins with exactly the listed *)
(* courses that resolve, in document order (what follows them was linked by *)
(* the enrollments phase).                                                  *)
C11_UnknownListedCourseKeepsStudent ==
    (LoadedDocument /\ WellFormedThroughStudents(last.content.data))
    => LET data == last.content.data
           Loaded(code) == \E c \in Range(pa.courses) : c.course_code = code
       IN  /\ last.phase \in {"enrollments", "schedules", "done"}
           /\ [k \in DOMAIN pa.students |-> pa.students[k].student_id]
                  = [k \in DOMAIN data.students |-> data.students[k].student_id]
           /\ \A k \in DOMAIN data.students :
                  LET resolvable ==
                          FirstOccurrences(SelectSeq(ListedCodes(data.students[k]), Loaded))
                      got == Codes(pa.students[k].enrolled_courses)
                  IN  /\ Len(got) >= Len(resolvable)
                      /\ SubSeq(got, 1, Len(resolvable)) = resolvable

\* a loaded student whose record lists a course that is not loaded and one that is
C11_Witness ==
    /\ LoadedDocument
    /\ WellFormedThroughStudents(last.content.data)
    /\ \E k \in DOMAIN pa.students :
           /\ \E j \in DOMAIN last.content.data.students[k].enrolled_courses :
                  \A c \in Range(pa.courses) :
                      c.course_code
                          # last.content.data.students[k].enrolled_courses[j].course_code
           /\ pa.students[k].enrolled_courses # <<>>

(* C13: save_data leaves the in-memory students, instructors, courses and   *)
(* enrollments, and every entity in them, unchanged, when the write         *)
(* succeeds and when it fails; a failure is reported and does not leave     *)
(* save_data as an exception.                                               *)
C13_SaveLeavesMemoryUnchanged ==
    [][\A f \in SaveFiles, io \in {"ok", "open_fails", "write_fails"} :
           SaveData(f, io)
           => /\ pa' = pa
              /\ reg' = reg
              /\ ~last'.escaped
              /\ (io # "ok" => last'.out = <<"Error saving data: " \o last'.error>>)]_vars

\* a save that failed on a PlatformAdmin holding students and courses
C13_Witness ==
    /\ last.op = "save_data"
    /\ last.io # "ok"
    /\ last.error # None
    /\ pa.students # <<>>
    /\ pa.courses # <<>>

\* the number of pairs the students before student k contribute
Offset(students, k) ==
    Sum([i \in 1..(k - 1) |-> Len(students[i].enrolled_courses)], 1..(k - 1))

(* C14: the enrollments sequence save_data writes is the sequence of        *)
(* (student_id, course_code) pairs met when walking the students in order   *)
(* and each student's enrolled_courses in order; PlatformAdmin.enrollments, *)
(* the Enrollment registry and the courses' enrolled_students have no part  *)
(* in it.                                                                   *)
C14_SavedEnrollmentsFlattenStudents ==
    (last.op = "save_data" /\ last.io = "ok")
    => LET written == fs[last.file].data.enrollments
           students == pa.students
       IN  /\ Len(written) = Offset(students, Len(students) + 1)
           /\ \A k \in DOMAIN students :
                  \A j \in DOMAIN students[k].enrolled_courses :
                      written[Offset(students, k) + j]
                          = [student_id |-> students[k].student_id,
                             course_code |-> students[k].enrolled_courses[j].course_code]

\* a save of students whose pairs differ from the courses' enrolled_students
\* and from the empty PlatformAdmin.enrollments
C14_Witness ==
    /\ last.op = "save_data"
    /\ last.io = "ok"
    /\ Len(fs[last.file].data.enrollments) >= 2
    /\ pa.enrollments = <<>>
    /\ \E c \in Range(pa.courses) : c.enrolled_students # <<>>
    /\ \E s \in Range(pa.students), c \in Range(pa.courses) :
           /\ c.oid \in Oids(s.enrolled_courses)
           /\ s.oid \notin Oids(c.enrolled_students)

-----------------------------------------------------------------------------
(* Student.to_dict and Student.from_dict on the students of a loaded        *)
(* document (RoundTripSpec)                                                 *)

\* Student.from_dict(pa.students[si].to_dict(), pa.courses)
RoundTrip(si) ==
    /\ LET data == Student_to_dict(pa.students[si])
           raises == Student_from_dict_raises(data, pa.courses)
       IN  last' = [op |-> "from_dict(to_dict)", student |-> si, data |-> data,
                    raised |-> IF raises THEN "KeyError" ELSE None,
                    result |-> IF raises THEN <<>>
                               ELSE <<Student_from_dict(data, pa.courses, <<0, si>>)>>]
    /\ UNCHANGED <<fs, pa, reg, loads, origin, session>>
    /\ UNCHANGED entities

RoundTripNext ==
    \/ \E f \in SaveFiles : loads = 0 /\ LoadData(f)
    \/ \E si \in DOMAIN pa.students : RoundTrip(si)

RoundTripSpec == Init /\ [][RoundTripNext]_vars

(* C12: for a Student s whose enrolled courses are all in the course list   *)
(* ctx, Student.from_dict(s.to_dict(), ctx) raises nothing and equals s in  *)
(* name, email, contact_number, address, student_id, year_level, program,   *)
(* gpa and birth_date, and its enrolled_courses has the same course codes   *)
(* in the same order.                                                       *)
C12_StudentRoundTrip ==
    last.op = "from_dict(to_dict)"
    => LET s == pa.students[last.student]
       IN  /\ Oids(s.enrolled_courses) \subseteq Oids(pa.courses)
           /\ last.raised = None
           /\ \A field \in {"name", "email", "contact_number", "address", "student_id",
                              "year_level", "program", "gpa", "birth_date"} :
                  last.result[1][field] = s[field]
           /\ Codes(last.result[1].enrolled_courses) = Codes(s.enrolled_courses)

\* a round trip of a student enrolled in two courses, with a gpa on record
C12_Witness ==
    /\ last.op = "from_dict(to_dict)"
    /\ last.raised = None
    /\ Len(pa.students[last.student].enrolled_courses) = 2
    /\ pa.students[last.student].gpa # 0

-----------------------------------------------------------------------------
(* Person, Student, Instructor and Grade on their own (EntitySpec).  A str  *)
(* whose characters the code examines is a sequence of characters; a float  *)
(* takes integral values.                                                   *)

Whitespace == {" "}

Digits == {"0", "1", "2", "3", "4", "5", "6", "7", "8", "9"}

\* str.strip()
strip(value) ==
    LET I == {i \in DOMAIN value : value[i] \notin Whitespace}
    IN  IF I = {} THEN <<>>
        ELSE SubSeq(value, CHOOSE i \in I : \A j \in I : i <= j,
                           CHOOSE i \in I : \A j \in I : i >= j)

\* str.isdigit(): every character a digit, and at least one character
isdigit(value) == value # <<>> /\ \A i \in DOMAIN value : value[i] \in Digits

\* ch in value
Contains(value, ch) == \E i \in DOMAIN value : value[i] = ch

\* the shortest contact number the setter takes
MinContactDigits == 10

\* the bounds of the gpa setter and of Grade.validate_score
MinGpa == 0

MaxGpa == 4

MinScore == 0

MaxScore == 100

\* what a setter or a constructor does to self: the object after the call and
\* the exception the call raised
Returned(self) == [self |-> self, raised |-> None]

Raised(self, error) == [self |-> self, raised |-> error]

\* Person.name setter
name_setter(self, value) ==
    IF strip(value) = <<>> THEN Raised(self, "ValueError")
    ELSE Returned([self EXCEPT !.name = value])

\* Person.email setter
email_setter(self, value) ==
    IF ~Contains(value, "@") \/ ~Contains(value, ".") THEN Raised(self, "ValueError")
    ELSE Returned([self EXCEPT !.email = value])

\* Person.contact_number setter
contact_number_setter(self, value) ==
    IF ~isdigit(value) \/ Len(value) < MinContactDigits THEN Raised(self, "ValueError")
    ELSE Returned([self EXCEPT !.contact_number = value])

\* Person.address setter
address_setter(self, value) ==
    IF strip(value) = <<>> THEN Raised(self, "ValueError")
    ELSE Returned([self EXCEPT !.address = value])

\* the gpa setter, were its upper bound exclusive
gpa_setter_below_max(self, value) ==
    IF MinGpa <= value /\ value < MaxGpa THEN Returned([self EXCEPT !.gpa = value])
    ELSE Raised(self, "ValueError")

\* Student.gpa setter
gpa_setter(self, value) ==
    IF MinGpa <= value /\ value <= MaxGpa THEN Returned([self EXCEPT !.gpa = value])
    ELSE Raised(self, "ValueError")

\* Grade.validate_score raises
validate_score_raises(self) == ~(MinScore <= self.score /\ self.score <= MaxScore)

\* Grade.__init__: the fields are set, then validate_score runs; when it raises
\* no object is returned
Grade(student, assignment, score, feedback) ==
    LET self == [student |-> student, assignment |-> assignment, score |-> score,
                 feedback |-> feedback]
    IN  IF validate_score_raises(self) THEN [self |-> <<>>, raised |-> "ValueError"]
        ELSE [self |-> <<self>>, raised |-> None]

\* Grade.score setter: the value is stored, then validate_score runs
score_setter(self, value) ==
    LET stored == [self EXCEPT !.score = value]
    IN  IF validate_score_raises(stored) THEN Raised(stored, "ValueError")
        ELSE Returned(stored)

\* values of the arguments
Names == {<<>>, <<" ">>, <<"A", "n", "n">>}

Emails == {<<"a", "@", "b", ".", "c">>, <<"a", "b", ".", "c">>, <<"a", "@", "b">>}

ContactNumbers ==
    {[i \in 1..MinContactDigits |-> "9"],
     [i \in 1..(MinContactDigits - 1) |-> "9"],
     [i \in 1..MinContactDigits |-> IF i = 1 THEN "+" ELSE "9"]}

Addresses == {<<>>, <<"1", " ", "M", "a", "i", "n">>}

Persons ==
    [name : Names, email : Emails, contact_number : ContactNumbers, address : Addresses]

GpaValues == {MinGpa - 1, MinGpa, 2, MaxGpa, MaxGpa + 1}

ScoreValues == {MinScore - 1, MinScore, 50, MaxScore, MaxScore + 1}

\* a student and an assignment for a Grade to refer to
GradedStudent == [oid |-> <<0, 1>>, student_id |-> "S1", name |-> "Student S1"]

GradedAssignment == [oid |-> <<0, 1>>, title |-> "HW1"]

\* nothing loaded, nothing saved
NoPersistence ==
    /\ fs = [f \in Files |-> Missing]
    /\ pa = PlatformAdmin
    /\ reg = <<>>
    /\ loads = 0
    /\ origin = [f \in Files |-> <<>>]
    /\ session = NoSession

EntityInit ==
    /\ NoPersistence
    /\ NoEntities
    /\ last = [op |-> "start"]

\* Student(name, email, contact_number, address, "S1", "1", "BSCS", gpa)
NewStudent(p, gpa) ==
    /\ aPerson = <<>>
    /\ aPerson' = <<Student(p.name, p.email, p.contact_number, p.address,
                            "S1", "1", "BSCS", gpa, None, <<0, 1>>)>>
    /\ last' = [op |-> "Student", value |-> p, raised |-> None]
    /\ UNCHANGED <<aGrade, aCourse, aTeacher, clock>>
    /\ UNCHANGED persistence

\* Instructor(**inst_data), as load_data calls it
NewInstructor(p) ==
    /\ aPerson = <<>>
    /\ LET inst_data == p @@ [instructor_id |-> "I1"]
       IN  /\ ~Instructor_raises(inst_data)
           /\ aPerson' = <<Instructor(inst_data, <<0, 1>>)>>
    /\ last' = [op |-> "Instructor", value |-> p, raised |-> None]
    /\ UNCHANGED <<aGrade, aCourse, aTeacher, clock>>
    /\ UNCHANGED persistence

\* a property setter of aPerson called with value
CallSetter(op, r, value) ==
    /\ aPerson' = <<r.self>>
    /\ last' = [op |-> op, value |-> value, raised |-> r.raised]
    /\ UNCHANGED <<aGrade, aCourse, aTeacher, clock>>
    /\ UNCHANGED persistence

SetName(value) ==
    aPerson # <<>> /\ CallSetter("name.setter", name_setter(aPerson[1], value), value)

SetEmail(value) ==
    aPerson # <<>> /\ CallSetter("email.setter", email_setter(aPerson[1], value), value)

SetContactNumber(value) ==
    /\ aPerson # <<>>
    /\ CallSetter("contact_number.setter", contact_number_setter(aPerson[1], value), value)

SetAddress(value) ==
    aPerson # <<>> /\ CallSetter("address.setter", address_setter(aPerson[1], value), value)

SetGpa(value) ==
    /\ aPerson # <<>>
    /\ aPerson[1].role = "Student"
    /\ CallSetter("gpa.setter", gpa_setter(aPerson[1], value), value)

\* Grade(student, assignment, score)
NewGrade(score) ==
    /\ LET r == Grade(GradedStudent, GradedAssignment, score, None)
       IN  /\ aGrade' = IF r.raised = None THEN r.self ELSE aGrade
           /\ last' = [op |-> "Grade", value |-> score, raised |-> r.raised]
    /\ UNCHANGED <<aPerson, aCourse, aTeacher, clock>>
    /\ UNCHANGED persistence

\* aGrade.score = value
SetScore(value) ==
    /\ aGrade # <<>>
    /\ LET r == score_setter(aGrade[1], value)
       IN  /\ aGrade' = <<r.self>>
           /\ last' = [op |-> "score.setter", value |-> value, raised |-> r.raised]
    /\ UNCHANGED <<aPerson, aCourse, aTeacher, clock>>
    /\ UNCHANGED persistence

EntityNext ==
    \/ \E p \in Persons, gpa \in GpaValues : NewStudent(p, gpa)
    \/ \E p \in Persons : NewInstructor(p)
    \/ \E value \in Names : SetName(value)
    \/ \E value \in Emails : SetEmail(value)
    \/ \E value \in ContactNumbers : SetContactNumber(value)
    \/ \E value \in Addresses : SetAddress(value)
    \/ \E value \in GpaValues : SetGpa(value)
    \/ \E score \in ScoreValues : NewGrade(score)
    \/ \E value \in ScoreValues : SetScore(value)

EntitySpec == EntityInit /\ [][EntityNext]_vars

Outside(value, low, high) == value < low \/ value > high

(* C18: the Student gpa setter raises ValueError for every value outside    *)
(* [0.0, 4.0] and stores every value inside it; the Grade constructor and   *)
(* the Grade score setter raise ValueError for every value outside [0, 100] *)
(* and take every value inside it, the bounds included.                     *)
C18_GpaAndScoreRanges ==
    /\ last.op = "gpa.setter"
           => /\ (last.raised = "ValueError") = Outside(last.value, 0, 4)
              /\ last.raised \in {None, "ValueError"}
              /\ (last.raised = None => aPerson[1].gpa = last.value)
    /\ last.op \in {"Grade", "score.setter"}
           => /\ (last.raised = "ValueError") = Outside(last.value, 0, 100)
              /\ last.raised \in {None, "ValueError"}
              /\ (last.raised = None => aGrade[1].score = last.value)

\* a score at the upper bound has been stored by the setter in a Grade, next
\* to a student whose gpa is at its upper bound
C18_Witness ==
    /\ last.op = "score.setter"
    /\ last.value = 100
    /\ last.raised = None
    /\ aPerson # <<>>
    /\ aPerson[1].role = "Student"
    /\ aPerson[1].gpa = 4

\* the checks of the four Person setters
ValidPerson(self) ==
    /\ strip(self.name) # <<>>
    /\ strip(self.address) # <<>>
    /\ Contains(self.email, "@") /\ Contains(self.email, ".")
    /\ isdigit(self.contact_number) /\ Len(self.contact_number) >= 10

(* C19: in every reachable state every Student and Instructor, whether      *)
(* built by its constructor, materialized by load_data or changed through   *)
(* a setter, has a non-empty name and address, an email with '@' and '.'    *)
(* and a contact number of at least 10 digits and nothing but digits.       *)
C19_PersonsAreValid ==
    aPerson # <<>> => ValidPerson(aPerson[1])

-----------------------------------------------------------------------------
(* Course.assign_assignment (AssignmentSpec).  A due-date string is what    *)
(* datetime.fromisoformat makes of it: not an ISO date-time, an ISO         *)
(* date-time without a UTC offset, or one with a UTC offset, at an instant  *)
(* t of the clock.                                                          *)

Instants == 0..(MaxTime + 1)

DueDates ==
    {[format |-> "invalid"]}
    \cup {[format |-> "naive", t |-> t] : t \in Instants}
    \cup {[format |-> "offset", t |-> t] : t \in Instants}

Titles == {"HW1", "HW2"}

\* datetime.fromisoformat raises ValueError
fromisoformat_raises(due_date) == due_date.format = "invalid"

\* datetime.fromisoformat: a naive datetime, or an aware one when the string
\* carries a UTC offset
fromisoformat(due_date) == [t |-> due_date.t, aware |-> due_date.format = "offset"]

\* due_datetime <= datetime.now() raises TypeError: an aware datetime cannot
\* be ordered against the naive datetime.now()
compare_raises(due_datetime) == due_datetime.aware

\* Assignment.__init__
Assignment(title, description, due_date, course_, oid) ==
    [oid |-> oid, title |-> title, description |-> description,
     due_date |-> due_date, course |-> course_, grades |-> <<>>]

\* Course.assign_assignment(title, description, due_date) at time now_
Course_assign_assignment(self, title, description, due_date, now_) ==
    IF fromisoformat_raises(due_date)
    THEN [self |-> self, raised |-> None, out |-> "Error: Invalid date format"]
    ELSE LET due_datetime == fromisoformat(due_date)
         IN  IF compare_raises(due_datetime)
             THEN [self |-> self, raised |-> "TypeError", out |-> None]
             ELSE IF due_datetime.t <= now_
             THEN [self |-> self, raised |-> None,
                   out |-> "Error: The due date must be in the future"]
             ELSE IF \E k \in DOMAIN self.assignments :
                         /\ self.assignments[k].title = title
                         /\ self.assignments[k].due_date = due_datetime
             THEN [self |-> self, raised |-> None, out |-> "already exists"]
             ELSE [self |-> [self EXCEPT !.assignments =
                                Append(@, Assignment(title, description, due_datetime,
                                                     CourseRef(self),
                                                     <<self.oid, Len(@) + 1>>))],
                   raised |-> None, out |-> "added to course"]

\* a course of instructor I1, as load_data builds it
SomeCourse(code, oid) ==
    Course("Course " \o code, code, Instructor(instructor_record("I1"), <<0, 1>>), 3, oid)

AssignmentInit ==
    /\ NoPersistence
    /\ aPerson = <<>>
    /\ aGrade = <<>>
    /\ aCourse = <<SomeCourse("C1", <<0, 1>>)>>
    /\ aTeacher = <<>>
    /\ clock = 0
    /\ last = [op |-> "start"]

\* time passes
Tick ==
    /\ clock < MaxTime
    /\ clock' = clock + 1
    /\ last' = [op |-> "tick"]
    /\ UNCHANGED <<aPerson, aGrade, aCourse, aTeacher>>
    /\ UNCHANGED persistence

\* aCourse.assign_assignment(title, "", due_date)
AssignAssignment(title, due_date) ==
    /\ LET r == Course_assign_assignment(aCourse[1], title, "", due_date, clock)
       IN  /\ Len(r.self.assignments) <= MaxAssignments
           /\ aCourse' = <<r.self>>
           /\ last' = [op |-> "Course.assign_assignment", title |-> title,
                       due_date |-> due_date, now |-> clock,
                       raised |-> r.raised, out |-> r.out]
    /\ UNCHANGED <<aPerson, aGrade, aTeacher, clock>>
    /\ UNCHANGED persistence

AssignmentNext ==
    \/ Tick
    \/ \E title \in Titles, due_date \in DueDates : AssignAssignment(title, due_date)

AssignmentSpec == AssignmentInit /\ [][AssignmentNext]_vars

(* C16: Course.assign_assignment called with a due date that is not         *)
(* strictly after the current time, or with a due-date string that is not   *)
(* an ISO date-time, reports an error, raises nothing and leaves the        *)
(* course's assignments unchanged; so every assignment entering the list    *)
(* has its due date after the time it is added at.                          *)
C16_BadDueDateIsReported ==
    [][\A title \in Titles, due_date \in DueDates :
           AssignAssignment(title, due_date)
           => /\ (due_date.format = "invalid" \/ due_date.t <= clock)
                     => /\ last'.raised = None
                        /\ last'.out \in {"Error: Invalid date format",
                                           "Error: The due date must be in the future"}
                        /\ aCourse' = aCourse
              /\ aCourse' # aCourse
                     => aCourse'[1].assignments[Len(aCourse'[1].assignments)].due_date.t
                            > clock]_vars

-----------------------------------------------------------------------------
(* Course.add_grade, Grade.from_dict and Schedule.from_dict (GradeSpec).    *)
(* The grade mapping is a function from (student_id, title) keys to Grade   *)
(* objects.                                                                 *)

\* Course_add_grade, were a grade stored whether or not its key is present
Course_add_grade_overwrites(self, grade_) ==
    LET key == <<grade_.student.student_id, grade_.assignment.title>>
    IN  [self |-> [self EXCEPT !.grades =
                      [k \in DOMAIN @ \cup {key} |-> IF k = key THEN grade_ ELSE @[k]]],
         out |-> "added"]

\* Course.add_grade
Course_add_grade(self, grade_) ==
    LET key == <<grade_.student.student_id, grade_.assignment.title>>
    IN  IF key \in DOMAIN self.grades
        THEN [self |-> self, out |-> "already exists"]
        ELSE [self |-> [self EXCEPT !.grades = @ @@ (key :> grade_)], out |-> "added"]

\* Grade.from_dict(data, students, assignments): the Grade it returns, if any,
\* and the exception it raises
Grade_from_dict(data, students, assignments) ==
    LET has_sid == "student_id" \in DOMAIN data
        has_title == "assignment_title" \in DOMAIN data
        si == IF students = <<>> \/ ~has_sid THEN 0
              ELSE FirstIndex({x \in DOMAIN students :
                                  students[x].student_id = data.student_id})
        ai == IF assignments = <<>> \/ ~has_title THEN 0
              ELSE FirstIndex({x \in DOMAIN assignments :
                                  assignments[x].title = data.assignment_title})
    IN  IF (students # <<>> /\ ~has_sid) \/ (assignments # <<>> /\ ~has_title)
        THEN [self |-> <<>>, raised |-> "KeyError"]
        ELSE IF si = 0
        THEN [self |-> <<>>, raised |-> IF has_sid THEN "ValueError" ELSE "KeyError"]
        ELSE IF ai = 0
        THEN [self |-> <<>>, raised |-> IF has_title THEN "ValueError" ELSE "KeyError"]
        ELSE IF "score" \notin DOMAIN data
        THEN [self |-> <<>>, raised |-> "KeyError"]
        ELSE Grade(students[si], assignments[ai], data.score, Get(data, "feedback", None))

\* Schedule.__init__
Schedule(course_, day, time) == [course |-> course_, day |-> day, time |-> time]

\* Schedule.from_dict(data, all_courses): the Schedule it returns, if any, and
\* the exception it raises
Schedule_from_dict(data, all_courses) ==
    LET has_course == "course" \in DOMAIN data
        ci == IF all_courses = <<>> \/ ~has_course THEN 0
              ELSE FirstIndex({x \in DOMAIN all_courses :
                                  all_courses[x].course_code = data.course})
    IN  IF ~has_course THEN [self |-> <<>>, raised |-> "KeyError"]
        ELSE IF ci = 0 THEN [self |-> <<>>, raised |-> "ValueError"]
        ELSE IF ~({"day", "time"} \subseteq DOMAIN data)
        THEN [self |-> <<>>, raised |-> "KeyError"]
        ELSE [self |-> <<Schedule(CourseRef(all_courses[ci]), data.day, data.time)>>,
              raised |-> None]

\* the students and assignments of the course: two Student objects carry the
\* student_id S1
GradeStudents ==
    <<StudentRef(Student_from_dict(student_record("S1", <<>>), <<>>, <<0, 1>>)),
      StudentRef(Student_from_dict(student_record("S2", <<>>), <<>>, <<0, 2>>)),
      StudentRef(Student_from_dict(student_record("S1", <<>>), <<>>, <<0, 3>>))>>

GradeAssignments ==
    <<Assignment("HW1", "", [t |-> 1, aware |-> FALSE],
                 CourseRef(SomeCourse("C1", <<0, 1>>)), <<<<0, 1>>, 1>>),
      Assignment("HW2", "", [t |-> 2, aware |-> FALSE],
                 CourseRef(SomeCourse("C1", <<0, 1>>)), <<<<0, 1>>, 2>>)>>

GradeScores == {50, 90}

\* the records Grade.from_dict is given
GradeRecords ==
    {[student_id |-> "S1", assignment_title |-> "HW1", score |-> 90, feedback |-> "ok"],
     [student_id |-> "S2", assignment_title |-> "HW2", score |-> 50],
     [student_id |-> "S3", assignment_title |-> "HW1", score |-> 90],
     [student_id |-> "S1", assignment_title |-> "HW9", score |-> 90],
     [student_id |-> "S1", assignment_title |-> "HW1", score |-> 101],
     [assignment_title |-> "HW1", score |-> 90]}

\* the records Schedule.from_dict is given
ScheduleDicts ==
    {[course |-> "C1", day |-> "Monday", time |-> "09:00"],
     [course |-> "C3", day |-> "Monday", time |-> "09:00"],
     [course |-> "C1", day |-> "Monday"]}

GradeInit ==
    /\ NoPersistence
    /\ aPerson = <<>>
    /\ aGrade = <<>>
    /\ aCourse = <<SomeCourse("C1", <<0, 1>>)>>
    /\ aTeacher = <<>>
    /\ clock = 0
    /\ last = [op |-> "start"]

\* aCourse.add_grade(Grade(student, assignment, score))
AddGrade(student, assignment, score) ==
    /\ LET g == Grade(student, assignment, score, None).self[1]
           r == Course_add_grade(aCourse[1], g)
       IN  /\ aCourse' = <<r.self>>
           /\ last' = [op |-> "Course.add_grade", grade |-> g, out |-> r.out]
    /\ UNCHANGED <<aPerson, aGrade, aTeacher, clock>>
    /\ UNCHANGED persistence

\* Grade.from_dict(data, students, assignments)
GradeFromDict(data) ==
    /\ LET r == Grade_from_dict(data, GradeStudents, GradeAssignments)
       IN  /\ aGrade' = IF r.raised = None THEN r.self ELSE aGrade
           /\ last' = [op |-> "Grade.from_dict", data |-> data, raised |-> r.raised,
                       result |-> r.self]
    /\ UNCHANGED <<aPerson, aCourse, aTeacher, clock>>
    /\ UNCHANGED persistence

\* Schedule.from_dict(data, [aCourse])
ScheduleFromDict(data) ==
    /\ LET r == Schedule_from_dict(data, aCourse)
       IN  last' = [op |-> "Schedule.from_dict", data |-> data, raised |-> r.raised,
                    result |-> r.self]
    /\ UNCHANGED entities
    /\ UNCHANGED persistence

GradeNext ==
    \/ \E student \in Range(GradeStudents), assignment \in Range(GradeAssignments),
          score \in GradeScores : AddGrade(student, assignment, score)
    \/ \E data \in GradeRecords : GradeFromDict(data)
    \/ \E data \in ScheduleDicts : ScheduleFromDict(data)

GradeSpec == GradeInit /\ [][GradeNext]_vars

\* the record names a student, an assignment or a course that the collections
\* handed to from_dict do not hold
Unresolved(op, data) ==
    \/ /\ op = "Grade.from_dict"
       /\ {"student_id", "assignment_title", "score"} \subseteq DOMAIN data
       /\ \/ \A x \in DOMAIN GradeStudents : GradeStudents[x].student_id # data.student_id
          \/ \A x \in DOMAIN GradeAssignments :
                 GradeAssignments[x].title # data.assignment_title
    \/ /\ op = "Schedule.from_dict"
       /\ {"course", "day", "time"} \subseteq DOMAIN data
       /\ \A x \in DOMAIN aCourse : aCourse[x].course_code # data.course

(* C15: Grade.from_dict and Schedule.from_dict, given a record whose        *)
(* student_id, assignment_title or course code does not resolve against the *)
(* collections they are handed, build no entity and raise no error to the   *)
(* caller.                                                                  *)
C15_UnresolvedFromDictDoesNotRaise ==
    (last.op \in {"Grade.from_dict", "Schedule.from_dict"} /\ Unresolved(last.op, last.data))
    => (last.raised = None /\ last.result = <<>>)

(* C17: Course.add_grade called with a grade whose (student_id, assignment  *)
(* title) key is already in the course's grade mapping reports the conflict *)
(* and leaves the mapping as it was, the original grade kept; the mapping   *)
(* holds each grade under its own key, one per (student_id, title).         *)
C17_SecondGradeIsRefused ==
    [][\A student \in Range(GradeStudents), assignment \in Range(GradeAssignments),
          score \in GradeScores :
           AddGrade(student, assignment, score)
           => /\ <<student.student_id, assignment.title>> \in DOMAIN aCourse[1].grades
                     => /\ aCourse' = aCourse
                        /\ last'.out = "already exists"
              /\ \A key \in DOMAIN aCourse'[1].grades :
                     /\ aCourse'[1].grades[key].student.student_id = key[1]
                     /\ aCourse'[1].grades[key].assignment.title = key[2]]_vars

\* add_grade refused a grade for S1 and HW1 that differs from the one on record
C17_Witness ==
    /\ last.op = "Course.add_grade"
    /\ last.out = "already exists"
    /\ aCourse[1].grades[<<last.grade.student.student_id, last.grade.assignment.title>>]
           # last.grade
    /\ Cardinality(DOMAIN aCourse[1].grades) >= 2

-----------------------------------------------------------------------------
(* Instructor.teach_course and Instructor.assign_assignment                 *)
(* (InstructorSpec).  Course and Assignment define no __eq__: 'in' compares *)
(* objects by identity, here by oid.                                        *)

\* teach_course without the membership test
teach_course_unguarded(self, course_) ==
    [self |-> [self EXCEPT !.courses_taught = Append(@, CourseRef(course_))],
     out |-> "added to instructor"]

\* Instructor.teach_course
teach_course(self, course_) ==
    IF course_.oid \notin Oids(self.courses_taught)
    THEN [self |-> [self EXCEPT !.courses_taught = Append(@, CourseRef(course_))],
          out |-> "added to instructor"]
    ELSE [self |-> self, out |-> "is already teaching the course"]

\* Instructor.assign_assignment
Instructor_assign_assignment(self, assignment) ==
    IF assignment.course.oid \notin Oids(self.courses_taught)
    THEN [self |-> self, out |-> "course not taught by instructor"]
    ELSE IF assignment.oid \notin Oids(self.assignments)
    THEN [self |-> [self EXCEPT !.assignments = Append(@, assignment)],
          out |-> "assigned to instructor"]
    ELSE [self |-> self, out |-> "is already assigned"]

\* three Course objects, two of them with the code C1
TaughtCourses ==
    {SomeCourse("C1", <<0, 1>>), SomeCourse("C2", <<0, 2>>), SomeCourse("C1", <<0, 3>>)}

\* an assignment HW1 of each course, and a second Assignment object equal to
\* the first in every field
TeacherAssignments ==
    {Assignment("HW1", "", [t |-> 1, aware |-> FALSE], CourseRef(c), <<c.oid, 1>>) :
         c \in TaughtCourses}
    \cup {Assignment("HW1", "", [t |-> 1, aware |-> FALSE],
                     CourseRef(SomeCourse("C1", <<0, 1>>)), <<<<0, 1>>, 2>>)}

InstructorInit ==
    /\ NoPersistence
    /\ aPerson = <<>>
    /\ aGrade = <<>>
    /\ aCourse = <<>>
    /\ aTeacher = <<Instructor(instructor_record("I1"), <<0, 1>>)>>
    /\ clock = 0
    /\ last = [op |-> "start"]

\* aTeacher.teach_course(course)
TeachCourse(course_) ==
    /\ LET r == teach_course(aTeacher[1], course_)
       IN  /\ aTeacher' = <<r.self>>
           /\ last' = [op |-> "Instructor.teach_course", arg |-> course_.oid, out |-> r.out]
    /\ UNCHANGED <<aPerson, aGrade, aCourse, clock>>
    /\ UNCHANGED persistence

\* aTeacher.assign_assignment(assignment)
TeacherAssign(assignment) ==
    /\ LET r == Instructor_assign_assignment(aTeacher[1], assignment)
       IN  /\ aTeacher' = <<r.self>>
           /\ last' = [op |-> "Instructor.assign_assignment", arg |-> assignment.oid,
                       out |-> r.out]
    /\ UNCHANGED <<aPerson, aGrade, aCourse, clock>>
    /\ UNCHANGED persistence

InstructorNext ==
    \/ \E course_ \in TaughtCourses : TeachCourse(course_)
    \/ \E assignment \in TeacherAssignments : TeacherAssign(assignment)

InstructorSpec == InstructorInit /\ [][InstructorNext]_vars

\* no object occurs twice in the list
NoDuplicates(refs) == \A j, k \in DOMAIN refs : refs[j].oid = refs[k].oid => j = k

(* C20: Instructor.teach_course and Instructor.assign_assignment called     *)
(* with a course or an assignment that is already present report it and    *)
(* leave courses_taught and assignments unchanged, so neither list ever     *)
(* holds an object twice; and assign_assignment adds no assignment whose    *)
(* course is not in courses_taught.                                         *)
C20_TeachAndAssignAreIdempotent ==
    [][/\ \A course_ \in TaughtCourses :
              (TeachCourse(course_) /\ course_.oid \in Oids(aTeacher[1].courses_taught))
              => /\ aTeacher' = aTeacher
                 /\ last'.out = "is already teaching the course"
       /\ \A assignment \in TeacherAssignments :
              TeacherAssign(assignment)
              => /\ assignment.oid \in Oids(aTeacher[1].assignments)
                        => /\ aTeacher' = aTeacher
                           /\ last'.out = "is already assigned"
                 /\ assignment.course.oid \notin Oids(aTeacher[1].courses_taught)
                        => /\ aTeacher' = aTeacher
                           /\ last'.out = "course not taught by instructor"
       /\ \A x \in DOMAIN aTeacher' :
              /\ NoDuplicates(aTeacher'[x].courses_taught)
              /\ NoDuplicates(aTeacher'[x].assignments)
              /\ \A a \in Range(aTeacher'[x].assignments) :
                     a.course.oid \in Oids(aTeacher'[x].courses_taught)]_vars

\* a repeated assign_assignment, refused, on an instructor teaching two courses
\* and holding two assignments
C20_Witness ==
    /\ last.op = "Instructor.assign_assignment"
    /\ last.out = "is already assigned"
    /\ Len(aTeacher[1].courses_taught) >= 2
    /\ Len(aTeacher[1].assignments) >= 2

-----------------------------------------------------------------------------
(* PlatformAdmin.admin_login and the admins of the document *)

\* the email and password pairs typed at the prompt
Credentials ==
    {[email |-> e, password |-> p] : e \in {"admin@school.edu", "guest@school.edu"},
                                     p \in {"secret", "wrong"}}

\* PlatformAdmin.admin_login() on a data.json of this content, email and
\* password being what the user types: what it returns.  An entry without
\* one of the two keys raises KeyError when any() comes to it, which the
\* except Exception clause turns into False.
admin_login(content, email, password) ==
    IF content.kind # "doc" THEN FALSE
    ELSE LET admins == Get(content.data, "admins", <<>>)
             Malformed(k) == ~({"email", "password"} \subseteq DOMAIN admins[k])
             bad == FirstIndex({k \in DOMAIN admins : Malformed(k)})
             hit == FirstIndex({k \in DOMAIN admins :
                        /\ ~Malformed(k)
                        /\ admins[k].email = email
                        /\ admins[k].password = password})
         IN  hit # 0 /\ (bad = 0 \/ hit < bad)

\* C21: save_data never removes admin credentials from the document: every
\* email and password pair that admin_login accepted before a save_data on
\* data.json is still accepted after it.
C21_SaveKeepsAdmins ==
    [][\A f \in SaveFiles, io \in {"ok", "open_fails", "write_fails"} :
           SaveData(f, io) =>
               \A c \in Credentials :
                   admin_login(fs["data.json"], c.email, c.password)
                       => admin_login(fs'["data.json"], c.email, c.password)]_vars

-----------------------------------------------------------------------------
\* C22: in every reachable state the score of every Grade object lies in
\* [0, 100]; after the score setter rejects a value the grade still holds the
\* score it had before.
C22_GradeScoreInRange ==
    aGrade # <<>> => MinScore <= aGrade[1].score /\ aGrade[1].score <= MaxScore

-----------------------------------------------------------------------------
\* C23: after any sequence of Enrollment.enroll_student and unenroll_student
\* calls the roster that Course.add_student fills agrees with the enrollment
\* set: a student is on a course's roster if and only if the (student,
\* course) pair is in the enrollment set, so an unenrolled student is no
\* longer on the roster.
C23_RosterAgreesWithEnrollments ==
    last.op \in {"enroll_student", "unenroll_student"} =>
        \A si \in DOMAIN pa.students, ci \in DOMAIN pa.courses :
            pa.students[si].oid \in Oids(pa.courses[ci]._students) <=> Enrolled(si, ci)

-----------------------------------------------------------------------------
\* C24: after load_data of any document, one whose enrollments sequence
\* repeats a (student_id, course_code) record included, no course's
\* enrolled_students lists the same student twice and no student's
\* enrolled_courses lists the same course twice.
C24_LoadedListsHaveNoDuplicates ==
    (LoadedDocument /\ last.error = None) =>
        /\ \A c \in Range(pa.courses) : NoDuplicates(c.enrolled_students)
        /\ \A st \in Range(pa.students) : NoDuplicates(st.enrolled_courses)

-----------------------------------------------------------------------------
\* the loaded courses whose instructor is this one
CoursesOf(self, instructor) ==
    {c.oid : c \in {x \in Range(self.courses) : x.instructor.oid = instructor.oid}}

\* C25: after a successful load_data every loaded course is in the
\* courses_taught list of the instructor it references: an instructor's
\* courses_taught is the set of loaded courses whose instructor_id is that
\* instructor's id.
C25_LoadedCoursesAreTaught ==
    (LoadedDocument /\ last.error = None) =>
        \A i \in Range(pa.instructors) : Oids(i.courses_taught) = CoursesOf(pa, i)

-----------------------------------------------------------------------------
(* Course.input_grades and Course._handle_grade_input (GradeInputSpec).     *)
(* What the user types at "Enter the grade: " is a number or a text that    *)
(* float() rejects.                                                         *)

\* what a Grade holds of its assignment: the object and the title read through it
AssignmentRef(assignment) == [oid |-> assignment.oid, title |-> assignment.title]

\* Assignment.add_grade(grade, feedback, student_id)
Assignment_add_grade(self, grade_, feedback, student_id) ==
    IF ~(0 <= grade_ /\ grade_ <= 100)
    THEN [self |-> self, out |-> "Error: Grade must be between 0 and 100."]
    ELSE IF \E k \in DOMAIN self.grades : self.grades[k].student_id = student_id
    THEN [self |-> self, out |-> "already exists for this assignment"]
    ELSE [self |-> [self EXCEPT !.grades =
                       Append(@, [score |-> grade_, student_id |-> student_id,
                                  feedback |-> feedback])],
          out |-> "added"]

\* float(text) raises ValueError
float_raises(text) == ~text.numeric

\* float(text)
float(text) == text.value

\* Course._handle_grade_input(student, self.assignments[k]), typed and feedback
\* being the two answers of the user: the ValueError of float() and of the
\* Grade constructor are caught, assignment.add_grade is called with the score
\* alone, then Course.add_grade with the Grade
_handle_grade_input(self, student, k, typed, feedback) ==
    IF float_raises(typed) THEN [self |-> self, out |-> <<"Invalid score">>]
    ELSE LET score == float(typed)
             g == Grade(student, AssignmentRef(self.assignments[k]), score, feedback)
         IN  IF g.raised = "ValueError" THEN [self |-> self, out |-> <<"Invalid score">>]
             ELSE LET a == Assignment_add_grade(self.assignments[k], score, "", "")
                      r == Course_add_grade([self EXCEPT !.assignments[k] = a.self],
                                            g.self[1])
                  IN  [self |-> r.self, out |-> <<a.out, r.out, "added to assignment">>]

\* Course.input_grades(), the user typing a title, a student id, a grade and
\* a feedback
input_grades(self, assignment_title, student_id, typed, feedback) ==
    LET k == FirstIndex({x \in DOMAIN self.assignments :
                            self.assignments[x].title = assignment_title})
        si == FirstIndex({x \in DOMAIN self._students :
                             self._students[x].student_id = student_id})
    IN  IF k = 0 THEN [self |-> self, out |-> <<"Assignment not found">>]
        ELSE IF si = 0 THEN [self |-> self, out |-> <<"Student not found">>]
        ELSE _handle_grade_input(self, self._students[si], k, typed, feedback)

\* what is typed at the prompts
TypedTitles == {"HW1", "HW2", "HW9"}

TypedStudentIds == {"S1", "S2", "S3"}

TypedGrades ==
    {[numeric |-> FALSE],
     [numeric |-> TRUE, value |-> 50],
     [numeric |-> TRUE, value |-> 90],
     [numeric |-> TRUE, value |-> 101]}

\* a course after add_student of S1 and S2 and assign_assignment of HW1 and HW2
GradedCourse ==
    LET c0 == SomeCourse("C1", <<0, 1>>)
        c1 == add_student(c0, Student_from_dict(student_record("S1", <<>>), <<>>, <<0, 1>>))
        c2 == add_student(c1, Student_from_dict(student_record("S2", <<>>), <<>>, <<0, 2>>))
        c3 == Course_assign_assignment(c2, "HW1", "", [format |-> "naive", t |-> 1], 0).self
    IN  Course_assign_assignment(c3, "HW2", "", [format |-> "naive", t |-> 2], 0).self

GradeInputInit ==
    /\ NoPersistence
    /\ aPerson = <<>>
    /\ aGrade = <<>>
    /\ aCourse = <<GradedCourse>>
    /\ aTeacher = <<>>
    /\ clock = 0
    /\ last = [op |-> "start"]

\* aCourse.input_grades()
InputGrades(assignment_title, student_id, typed) ==
    /\ LET r == input_grades(aCourse[1], assignment_title, student_id, typed, "ok")
       IN  /\ aCourse' = <<r.self>>
           /\ last' = [op |-> "input_grades", title |-> assignment_title,
                       student_id |-> student_id, typed |-> typed, out |-> r.out]
    /\ UNCHANGED <<aPerson, aGrade, aTeacher, clock>>
    /\ UNCHANGED persistence

GradeInputNext ==
    \E assignment_title \in TypedTitles, student_id \in TypedStudentIds,
       typed \in TypedGrades : InputGrades(assignment_title, student_id, typed)

GradeInputSpec == GradeInputInit /\ [][GradeInputNext]_vars

\* C26: grade entry through Course._handle_grade_input keeps the two grade
\* ledgers consistent: after any sequence of grade inputs for students of a
\* course, an assignment's own grades list has as many entries as the
\* course's grade mapping has for that assignment's title, one per graded
\* student.
C26_LedgersAgree ==
    \A k \in DOMAIN aCourse[1].assignments :
        Len(aCourse[1].assignments[k].grades)
            = Cardinality({key \in DOMAIN aCourse[1].grades :
                              key[2] = aCourse[1].assignments[k].title})

-----------------------------------------------------------------------------
(* The menu loop of the E_Learning_Environment (MenuSpec): start-up, the    *)
(* student menu with enroll_in_courses, the admin sign-in and the exit that *)
(* saves.  An exception that no menu catches ends main_menu; the program's  *)
(* entry prints it and the process ends.                                    *)

MainMenu == [at |-> "main_menu", student |-> 0]

StudentMenuOf(si) == [at |-> "student_menu", student |-> si]

Exited == [at |-> "exited", student |-> 0]

Terminated == [at |-> "terminated", student |-> 0]

\* what is typed at "Enter your name: " and "Enter the course name to enroll in: "
TypedNames == {"Student S1", "Student S2", "Nobody"}

TypedCourseNames == {"Course C1", "Course C2", "Course C9"}

\* E_Learning_Environment.get_student_by_name: the index of the student, 0 for None
get_student_by_name(self, name) ==
    FirstIndex({x \in DOMAIN self.students : self.students[x].name = name})

\* E_Learning_Environment.enroll_in_courses(self.platform_admin.students[si]),
\* self being the platform_admin.  platform_admin.enrollments is the list that
\* PlatformAdmin.__init__ and load_data assign; a list has no attribute
\* enroll_student, so reading it raises AttributeError.
enroll_in_courses(self, si, course_name) ==
    LET ci == FirstIndex({x \in DOMAIN self.courses :
                             self.courses[x].course_name = course_name})
    IN  IF ci = 0
        THEN [self |-> self, course |-> 0, listed |-> FALSE, raised |-> None,
              out |-> "Course not found."]
        ELSE IF self.courses[ci].oid \in Oids(self.students[si].enrolled_courses)
        THEN [self |-> self, course |-> ci, listed |-> TRUE, raised |-> None,
              out |-> "You are already enrolled"]
        ELSE [self |-> self, course |-> ci, listed |-> FALSE,
              raised |-> "AttributeError", out |-> None]

\* the program's entry: PlatformAdmin().load_data('data.json'), then
\* E_Learning_Environment(), whose own PlatformAdmin loads the file a second
\* time and is replaced by the first, then main_menu()
Startup ==
    /\ session = NoSession
    /\ LET r == load_data(PlatformAdmin, fs["data.json"], 1)
       IN  /\ pa' = r.self
           /\ last' = [op |-> "E_Learning_Environment", error |-> r.error]
    /\ loads' = 2
    /\ session' = MainMenu
    /\ UNCHANGED <<fs, reg, origin>>
    /\ UNCHANGED entities

\* main_menu, choice 1: student_menu() asks for the name
StudentMenu(name) ==
    /\ session = MainMenu
    /\ LET si == get_student_by_name(pa, name)
       IN  /\ session' = IF si = 0 THEN MainMenu ELSE StudentMenuOf(si)
           /\ last' = [op |-> "student_menu", name |-> name, student |-> si]
    /\ UNCHANGED <<fs, pa, reg, loads, origin>>
    /\ UNCHANGED entities

\* student_menu, choice 3: enroll_in_courses(student); neither student_menu
\* nor main_menu catches what it raises
EnrollInCourses(course_name) ==
    /\ session.at = "student_menu"
    /\ LET r == enroll_in_courses(pa, session.student, course_name)
       IN  /\ pa' = r.self
           /\ session' = IF r.raised = None THEN session ELSE Terminated
           /\ last' = [op |-> "enroll_in_courses", student |-> session.student,
                       course_name |-> course_name, course |-> r.course,
                       listed |-> r.listed, raised |-> r.raised, out |-> r.out]
    /\ UNCHANGED <<fs, reg, loads, origin>>
    /\ UNCHANGED entities

\* student_menu, choice 8
Logout ==
    /\ session.at = "student_menu"
    /\ session' = MainMenu
    /\ last' = [op |-> "logout"]
    /\ UNCHANGED <<fs, pa, reg, loads, origin>>
    /\ UNCHANGED entities

\* main_menu, choice 3: admin_login(), and on success admin_menu(), where the
\* admin logs out
SignInAsAdmin(c) ==
    /\ session = MainMenu
    /\ last' = [op |-> "admin_login", email |-> c.email, password |-> c.password,
                accepted |-> admin_login(fs["data.json"], c.email, c.password)]
    /\ UNCHANGED persistence
    /\ UNCHANGED entities

\* main_menu, choice 4: save_data() and the end of the loop
Exit(io) ==
    /\ session = MainMenu
    /\ LET r == save_data(pa, fs["data.json"], io)
       IN  /\ pa' = r.self
           /\ fs' = [fs EXCEPT !["data.json"] = r.content]
           /\ origin' = [origin EXCEPT !["data.json"] =
                            IF io = "ok" THEN <<View(pa)>>
                            ELSE IF io = "open_fails" THEN @
                            ELSE <<>>]
           /\ last' = [op |-> "exit", io |-> io, error |-> r.error]
    /\ session' = Exited
    /\ UNCHANGED <<reg, loads>>
    /\ UNCHANGED entities

MenuNext ==
    \/ Startup
    \/ \E name \in TypedNames : StudentMenu(name)
    \/ \E course_name \in TypedCourseNames : EnrollInCourses(course_name)
    \/ Logout
    \/ \E c \in Credentials : SignInAsAdmin(c)
    \/ \E io \in {"ok", "open_fails", "write_fails"} : Exit(io)

MenuSpec == Init /\ [][MenuNext]_vars

\* C27: when a student uses the menu operation enroll_in_courses with the
\* name of an existing course they are not yet enrolled in, the operation
\* completes without an error, the course is afterwards in the student's
\* enrolled_courses, and the session is still in the menu, from where the
\* exit option that calls save_data can be reached.
C27_EnrollFromMenuCompletes ==
    (last.op = "enroll_in_courses" /\ last.course # 0 /\ ~last.listed) =>
        /\ last.raised = None
        /\ pa.courses[last.course].oid
               \in Oids(pa.students[last.student].enrolled_courses)
        /\ session.at = "student_menu"

====
